---- MODULE Spec2Model ----
(***************************************************************************)
(* State-machine model of the visualization client src/public/main.js:     *)
(* the WebSocket connection manager, the message dispatcher, the world     *)
(* state store (cell table, bounds, agents, resources, explored set), the  *)
(* viewport controller, the pointer/keyboard interaction handlers and the  *)
(* canvas renderer.                                                        *)
(*                                                                         *)
(* The page is single-threaded: every handler runs to completion, so each  *)
(* handler is one action.  Calls that only write to the page (renderAgents,*)
(* status text) change none of the variables below and are left out of the *)
(* actions; the frame render() leaves on the canvas, the entries a handler *)
(* appends to the message log, and whether it ended by an uncaught error,  *)
(* are recorded.                                                           *)
(***************************************************************************)
EXTENDS Integers, Sequences, FiniteSets, TLC

(***************************************************************************)
(* Program constants (main.js 1-4, 32).                                    *)
(***************************************************************************)
CANVAS_SIZE_PX == 600
MAP_SIZE_CELLS == 1000
VIEWPORT_SIZE_CELLS == 100
CELL_SIZE_PX == CANVAS_SIZE_PX \div VIEWPORT_SIZE_CELLS
maxReconnectDelay == 5000

(***************************************************************************)
(* Bounds of the model.                                                    *)
(***************************************************************************)
\* WebSocket objects constructed in one behaviour (each reconnect makes one).
MaxSockets == 6
\* Cells carried by one full_map_init / update_map message.
MaxChunkLen == 2

(***************************************************************************)
(* Inputs.  The cell coordinates are chosen around the window size         *)
(* W = 100: chunks narrower than W, wider than W by two cells (so that the *)
(* viewport has room to move), with their largest x equal to 0, and with a *)
(* coordinate outside the 0..MAP_SIZE_CELLS map all occur.  The origin     *)
(* comes as an open cell and as a rugged cell, so that a chunk can carry   *)
(* one coordinate twice.                                                   *)
(***************************************************************************)
Cell(x, y, terrain) == [x |-> x, y |-> y, terrain |-> terrain]
Cells == {Cell(-1, 0, 1), Cell(0, 0, 1), Cell(0, 0, 0), Cell(0, 101, 1),
          Cell(101, 101, 1)}
Chunks == UNION {[1..n -> Cells] : n \in 0..MaxChunkLen}
\* map_cell_update payloads: <<0, 0>> is in some chunks, <<50, 0>> in none.
PatchXs == {0, 50}
PatchYs == {0}
Updates == {[terrain |-> 0], [dust_storm |-> TRUE]}
\* Chunks whose cells span x, y in 200..299 (exactly the window size) and
\* 200..304; the bounds are taken from the extreme cells, so the two
\* corner cells stand for the chunk.
Chunk200to299 == <<Cell(200, 200, 1), Cell(299, 299, 1)>>
Chunk200to304 == <<Cell(200, 200, 1), Cell(304, 304, 1)>>
\* Pointer positions of long drags: 300 px is 50 cells, 360 px is 60 cells,
\* 30 px is 5 cells.
PanXs == {0, 30, 300, 360}
PanYs == {0, 30, 360}
\* Pointer positions (clientX, clientY) in pixels.
MouseXs == {0, 5, 12}
MouseYs == {0, 6}
Keys == {"ArrowRight", "ArrowLeft", "ArrowDown", "ArrowUp", "Enter"}
\* agent_update payloads: full sightings, battery-only updates and, for one
\* agent, a position-only update.
AgentIds == {"r1", "r2"}
AgentUpdates ==
    [id : AgentIds, x : {0, 101}, y : {0}, battery : {40}]
        \cup [id : AgentIds, battery : {30}]
        \cup [id : {"r1"}, x : {7}, y : {0}]
\* resource_discovered / hazard_detected payloads: one id reported twice
\* with different fields.
ResourceReports ==
    {[id |-> "res1", x |-> 0, y |-> 0, type |-> "water"],
     [id |-> "res1", x |-> 101, y |-> 0, type |-> "ice"]}
HazardReports ==
    {[id |-> "h1", x |-> 0, y |-> 0, type |-> "storm", radius |-> 2],
     [id |-> "h1", x |-> 101, y |-> 0, type |-> "rock"]}
\* Frames of a recognized type that lack the object (or the patch) their
\* case reads.
MalformedFrames ==
    {[type |-> "full_map_init"], [type |-> "update_map"],
     [type |-> "agent_update"], [type |-> "resource_discovered"],
     [type |-> "hazard_detected"], [type |-> "stats"],
     [type |-> "map_cell_update", x |-> 0, y |-> 0]}
\* Well-formed frames of the kinds that only log or show statistics, and a
\* frame of a type the switch has no case for.
OtherFrames ==
    {[type |-> "log_message", sender |-> "rover1", content |-> "sample taken"],
     [type |-> "stats", stats |-> [terrainMapped |-> 1, resourcesFound |-> 0,
                                   totalEnergy |-> 90, hazards |-> 0]],
     [type |-> "error", message |-> "bad config"], [type |-> "error"],
     [type |-> "simulation_started"], [type |-> "simulation_paused"],
     [type |-> "simulation_resumed"], [type |-> "simulation_stopped"],
     [type |-> "heartbeat"]}
ConfigFiles == {"", "config.json"}
Commands == {"return_to_base"}
\* For the renderer: a rover in the corner cell, the same rover moved off
\* every window, a drone at the far edge of the loaded chunk; a resource
\* that bears the rover's id, next to it, and one off every window.
RenderAgentUpdates ==
    {[id |-> "r1", type |-> "rover", x |-> 0, y |-> 0],
     [id |-> "r1", x |-> 150, y |-> 0],
     [id |-> "r2", type |-> "drone", x |-> 101, y |-> 0]}
\* For selection, with the chunk 200..299 loaded: two agents on the corner
\* cell of the chunk, and the first of them moved outside the bounds.
SelectAgentUpdates ==
    {[id |-> "r1", x |-> 200, y |-> 200, battery |-> 40],
     [id |-> "r2", x |-> 200, y |-> 200, battery |-> 40],
     [id |-> "r1", x |-> 350, y |-> 200]}
RenderResourceReports ==
    {[id |-> "r1", x |-> 1, y |-> 0, type |-> "water"],
     [id |-> "res1", x |-> 150, y |-> 0, type |-> "ice"]}
\* Click positions on the canvas: inside the first, the second and the last
\* cell of the top row.
ClickXs == {3, 9, 597}
ClickYs == {3}

VARIABLES
    sockets,            \* readyState of every WebSocket constructed so far
    ws,                 \* index into sockets of the global ws, 0 for null
    timers,             \* delays of the pending setTimeout(connectWebSocket, d)
    reconnectAttempts,
    isRunning,
    simulationStarted,
    agents,
    resources,
    hazards,
    exploredCells,
    selectedAgent,      \* << >> for null, <<agent>> for an agent object
    mapCells,           \* cell table: key <<x, y>> -> cell record
    mapMinX, mapMinY, mapMaxX, mapMaxY,
    viewportX, viewportY,
    isDragging, lastMouseX, lastMouseY,
    sent,               \* frames handed to ws.send by the most recent handler
    logged,             \* entries the most recent handler left in the log
    threw,              \* the most recent handler ended by an uncaught error
    clampArg,           \* <<x, y>> when the most recent handler called
                        \* clampViewport(x, y), << >> otherwise
    lastLoad,           \* <<cells>> when the most recent handler was
                        \* initializeFullMap(cells), << >> otherwise
    lastChunk,          \* history: "none", or "empty" / "nonempty" /
                        \* "missing" for the map_cells of the most recent
                        \* full-map frame
    closesSinceOpen,    \* history: closes since the last open (or page load)
    connectCalls,       \* history: calls of connectWebSocket so far, modulo 2
    canvas              \* what the most recent render() left on the canvas

connVars == <<sockets, ws, timers, reconnectAttempts, closesSinceOpen,
             connectCalls>>
simVars == <<isRunning, simulationStarted>>
entityVars == <<agents, resources, hazards, exploredCells, selectedAgent>>
cellVars == <<mapCells, mapMinX, mapMinY, mapMaxX, mapMaxY, lastChunk>>
viewVars == <<viewportX, viewportY>>
dragVars == <<isDragging, lastMouseX, lastMouseY>>
worldVars == <<mapCells, mapMinX, mapMinY, mapMaxX, mapMaxY,
               viewportX, viewportY, agents, resources, hazards,
               exploredCells, selectedAgent>>
vars == <<sockets, ws, timers, reconnectAttempts, isRunning,
          simulationStarted, agents, resources, hazards, exploredCells,
          selectedAgent, mapCells, mapMinX, mapMinY, mapMaxX, mapMaxY,
          viewportX, viewportY, isDragging, lastMouseX, lastMouseY, sent,
          logged, threw, clampArg, lastLoad, lastChunk, closesSinceOpen,
          connectCalls, canvas>>

(***************************************************************************)
(* Helpers: Math.min / Math.max / Math.pow, template-string keys, object   *)
(* spread.                                                                 *)
(***************************************************************************)
MathMin(a, b) == IF a <= b THEN a ELSE b
MathMax(a, b) == IF a >= b THEN a ELSE b

RECURSIVE MathPow(_, _)
MathPow(b, e) == IF e <= 0 THEN 1 ELSE b * MathPow(b, e - 1)

\* `${x},${y}`: the decimal rendering of two integers joined by a comma is
\* one-to-one on integer pairs, so the pair itself stands for the string.
Key(x, y) == <<x, y>>

\* Mutant of Spread: the operands swapped, { ...b, ...a }.
Spread_TargetWins(a, b) ==
    [f \in (DOMAIN a) \cup (DOMAIN b) |-> IF f \in DOMAIN a THEN a[f] ELSE b[f]]

\* { ...a, ...b }: every field of b, and the fields of a that b lacks.
Spread(a, b) ==
    [f \in (DOMAIN a) \cup (DOMAIN b) |-> IF f \in DOMAIN b THEN b[f] ELSE a[f]]

\* obj[key] = value on a plain object.
Assign(obj, key, value) ==
    [k \in (DOMAIN obj) \cup {key} |-> IF k = key THEN value ELSE obj[k]]

EmptyObject == [k \in {} |-> 0]

\* The value undefined where a frame lacks the object a handler reads.
Undefined == [undefined |-> TRUE]
\* data.field of a decoded frame: undefined when the frame lacks the field.
Payload(data, field) == IF field \in DOMAIN data THEN data[field] ELSE Undefined
\* obj.id === id for an object; a missing id is undefined and equals no id.
IdIs(obj, id) == "id" \in DOMAIN obj /\ obj.id = id

WsIsOpen == ws # 0 /\ sockets[ws] = "OPEN"

(***************************************************************************)
(* The renderer (main.js 416-550).  A frame is kept as the set of cells    *)
(* painted over the background, each at its pixel position, and the        *)
(* sequence of entity drawings in the order they are made.                 *)
(***************************************************************************)
\* drawX of the cell (or entity) at world coordinate p; the entity is drawn
\* around the centre of its cell.
WorldToScreen(p, origin) == (p - origin) * CELL_SIZE_PX
CellCentre(p, origin) == WorldToScreen(p, origin) + CELL_SIZE_PX \div 2
\* Mutant of ScreenToWorld: the pixel is rounded to the nearest cell.
ScreenToWorld_Rounds(pixel, origin) ==
    origin + (pixel + CELL_SIZE_PX \div 2) \div CELL_SIZE_PX
\* The click handler: viewportX + Math.floor(pixel / CELL_SIZE_PX), the
\* pixel measured from the canvas corner.
ScreenToWorld(pixel, origin) == origin + pixel \div CELL_SIZE_PX

\* item.x >= viewportX && ... : false for a missing coordinate.
InWindow(item) ==
    /\ "x" \in DOMAIN item /\ "y" \in DOMAIN item
    /\ item.x >= viewportX /\ item.x < viewportX + VIEWPORT_SIZE_CELLS
    /\ item.y >= viewportY /\ item.y < viewportY + VIEWPORT_SIZE_CELLS

\* obj.id, << >> standing for undefined; selectedAgent?.id likewise.
IdOf(obj) == IF "id" \in DOMAIN obj THEN <<obj.id>> ELSE << >>
SelectedId == IF selectedAgent = << >> THEN << >> ELSE IdOf(selectedAgent[1])

\* The branch taken for a drawn item: the resource circle when it has a
\* `discovered` field, otherwise the shape of its type, if any.
ShapeOf(item) ==
    IF "discovered" \in DOMAIN item THEN "resource"
    ELSE IF "type" \in DOMAIN item /\ item.type \in {"rover", "drone", "base"}
           THEN item.type
           ELSE "none"

\* One pass of the forEach body for an item inside the window; the
\* selection highlight is tested for every such item.
DrawItem(item) ==
    [id |-> IdOf(item),
     drawX |-> CellCentre(item.x, viewportX),
     drawY |-> CellCentre(item.y, viewportY),
     shape |-> ShapeOf(item),
     ring |-> SelectedId = IdOf(item)]

\* [...resources, ...agents]
DrawList == resources \o agents

\* item.x throws on an undefined entry of the list: the forEach stops
\* there and render ends by an uncaught error.
RenderThrows == \E k \in DOMAIN DrawList : DrawList[k] = Undefined
Reached ==
    IF RenderThrows
      THEN SubSeq(DrawList, 1,
                  (CHOOSE k \in DOMAIN DrawList :
                       /\ DrawList[k] = Undefined
                       /\ \A j \in 1..(k - 1) : DrawList[j] # Undefined) - 1)
      ELSE DrawList

ItemsDrawn ==
    LET inside == SelectSeq(Reached, InWindow)
    IN [k \in DOMAIN inside |-> DrawItem(inside[k])]

\* The cells of the table inside the window, with their terrain colour
\* and overlays; every other cell of the window is background.
CellsDrawn ==
    {[drawX |-> WorldToScreen(key[1], viewportX),
      drawY |-> WorldToScreen(key[2], viewportY),
      terrain |-> IF "terrain" \in DOMAIN mapCells[key] /\ mapCells[key].terrain = 1
                    THEN "rgba(209, 213, 219, 0.2)"
                    ELSE IF "terrain" \in DOMAIN mapCells[key]
                            /\ mapCells[key].terrain = -1
                           THEN "rgba(30, 41, 59, 0.6)"
                           ELSE "rgba(75, 85, 99, 0.3)",
      explored |-> key \in exploredCells,
      dust_storm |-> "dust_storm" \in DOMAIN mapCells[key]
                       /\ mapCells[key].dust_storm = TRUE] :
        key \in {k \in DOMAIN mapCells :
                    /\ k[1] >= viewportX /\ k[1] < viewportX + VIEWPORT_SIZE_CELLS
                    /\ k[2] >= viewportY /\ k[2] < viewportY + VIEWPORT_SIZE_CELLS}}

\* What render() leaves on the canvas in the current state.
Drawing == [cells |-> CellsDrawn, items |-> ItemsDrawn]

(***************************************************************************)
(* The message log (main.js 268-289).  addMessage appends one entry; the   *)
(* entry is kept as its sender and the fixed part of its text.  The page   *)
(* elements the log lives in are taken to exist.                           *)
(***************************************************************************)
Entry(sender, content) == [sender |-> sender, content |-> content]
\* The handler returned normally having appended `entries`.
\* It did not call render().
Logs(entries) == logged' = entries /\ threw' = FALSE /\ canvas' = canvas
Quiet == Logs(<< >>)
\* The handler appended `entries` and then ended by an uncaught error,
\* before any call of render().
Throws(entries) == logged' = entries /\ threw' = TRUE /\ canvas' = canvas
\* The handler appended `entries` and called render() as the last
\* statement that can fail.
Renders(entries) ==
    /\ logged' = entries
    /\ threw' = RenderThrows'
    /\ canvas' = Drawing'
\* The handler appended `entries` and called renderAgents(); render():
\* renderAgents throws on an undefined entry of agents, before render().
RendersAgents(entries) ==
    /\ logged' = entries
    /\ threw' = RenderThrows'
    /\ canvas' = IF RenderThrows' THEN canvas ELSE Drawing'

(***************************************************************************)
(* Initial state: the script has run and window.onload has called          *)
(* connectWebSocket once and render() once (main.js 7-44).  The            *)
(* constructor either returned a connecting socket or threw, which         *)
(* schedules a retry after 1000 ms.                                        *)
(***************************************************************************)
Init ==
    /\ \/ sockets = <<"CONNECTING">> /\ ws = 1 /\ timers = << >>
       \/ sockets = << >> /\ ws = 0 /\ timers = <<1000>>
    /\ reconnectAttempts = 0
    /\ closesSinceOpen = 0
    /\ connectCalls = 1
    /\ isRunning = FALSE
    /\ simulationStarted = FALSE
    /\ agents = << >>
    /\ resources = << >>
    /\ hazards = << >>
    /\ exploredCells = {}
    /\ selectedAgent = << >>
    /\ mapCells = EmptyObject
    /\ mapMinX = 0 /\ mapMinY = 0 /\ mapMaxX = 0 /\ mapMaxY = 0
    /\ viewportX = 0 /\ viewportY = 0
    /\ isDragging = FALSE /\ lastMouseX = 0 /\ lastMouseY = 0
    /\ sent = << >>
    /\ logged = << >>
    /\ threw = FALSE
    /\ clampArg = << >>
    /\ lastLoad = << >>
    /\ lastChunk = "none"
    /\ canvas = Drawing

(***************************************************************************)
(* Connection manager (main.js 47-91).                                     *)
(***************************************************************************)
RemoveAt(seq, k) == SubSeq(seq, 1, k - 1) \o SubSeq(seq, k + 1, Len(seq))

\* connectWebSocket, called with `pending` timers still scheduled; `throws`
\* is whether new WebSocket(...) threw (the catch branch).
connectWebSocket(pending, throws) ==
    /\ IF throws
         THEN /\ timers' = Append(pending, 1000)
              /\ UNCHANGED <<sockets, ws>>
         ELSE /\ sockets' = Append(sockets, "CONNECTING")
              /\ ws' = Len(sockets) + 1
              /\ timers' = pending
    /\ connectCalls' = (connectCalls + 1) % 2
    /\ UNCHANGED <<reconnectAttempts, closesSinceOpen>>

\* A reconnect timer set by setTimeout(connectWebSocket, delay) fires.
TimerFired(k, throws) ==
    /\ k \in DOMAIN timers
    /\ throws \/ Len(sockets) < MaxSockets
    /\ connectWebSocket(RemoveAt(timers, k), throws)
    /\ sent' = << >>
    /\ lastLoad' = << >>
    /\ clampArg' = << >>
    /\ Quiet
    /\ UNCHANGED <<simVars, entityVars, cellVars, viewVars, dragVars>>

\* Mutant of WsOnOpen: reconnectAttempts is not reset.
WsOnOpen_KeepsAttempts(i) ==
    /\ i \in DOMAIN sockets
    /\ sockets[i] = "CONNECTING"
    /\ sockets' = [sockets EXCEPT ![i] = "OPEN"]
    /\ closesSinceOpen' = 0
    /\ sent' = << >>
    /\ lastLoad' = << >>
    /\ clampArg' = << >>
    /\ Logs(<<Entry("System", "Connected to SPADE system")>>)
    /\ UNCHANGED <<reconnectAttempts, ws, timers, connectCalls, simVars,
                   entityVars, cellVars,
                   viewVars, dragVars>>

\* ws.onopen of socket i.
WsOnOpen(i) ==
    /\ i \in DOMAIN sockets
    /\ sockets[i] = "CONNECTING"
    /\ sockets' = [sockets EXCEPT ![i] = "OPEN"]
    /\ reconnectAttempts' = 0
    /\ closesSinceOpen' = 0
    /\ sent' = << >>
    /\ lastLoad' = << >>
    /\ clampArg' = << >>
    /\ Logs(<<Entry("System", "Connected to SPADE system")>>)
    /\ UNCHANGED <<ws, timers, connectCalls, simVars, entityVars, cellVars,
                   viewVars, dragVars>>

\* Mutant of WsOnError: the error handler schedules a reconnect as well.
WsOnError_Reconnects(i) ==
    /\ i \in DOMAIN sockets
    /\ sockets[i] \in {"CONNECTING", "OPEN"}
    /\ timers' = Append(timers, 1000)
    /\ sent' = << >>
    /\ lastLoad' = << >>
    /\ clampArg' = << >>
    /\ Quiet
    /\ UNCHANGED <<sockets, ws, reconnectAttempts, closesSinceOpen, connectCalls>>
    /\ UNCHANGED <<simVars, entityVars, cellVars, viewVars, dragVars>>

\* ws.onerror of socket i: status text only.
WsOnError(i) ==
    /\ i \in DOMAIN sockets
    /\ sockets[i] \in {"CONNECTING", "OPEN"}
    /\ sent' = << >>
    /\ lastLoad' = << >>
    /\ clampArg' = << >>
    /\ Quiet
    /\ UNCHANGED <<connVars, simVars, entityVars, cellVars, viewVars, dragVars>>

\* The delay computed in ws.onclose after reconnectAttempts++.
ReconnectDelay(attempts) ==
    MathMin(500 * MathPow(2, attempts - 1), maxReconnectDelay)

\* Mutant of WsOnClose: the display is blanked on disconnect.
WsOnClose_BlanksWorld(i) ==
    /\ i \in DOMAIN sockets
    /\ sockets[i] \in {"CONNECTING", "OPEN"}
    /\ sockets' = [sockets EXCEPT ![i] = "CLOSED"]
    /\ reconnectAttempts' = reconnectAttempts + 1
    /\ timers' = Append(timers, ReconnectDelay(reconnectAttempts + 1))
    /\ closesSinceOpen' = closesSinceOpen + 1
    /\ sent' = << >>
    /\ lastLoad' = << >>
    /\ clampArg' = << >>
    /\ Quiet
    /\ mapCells' = EmptyObject
    /\ agents' = << >>
    /\ selectedAgent' = << >>
    /\ UNCHANGED <<mapMinX, mapMinY, mapMaxX, mapMaxY, lastChunk, resources,
                   hazards, exploredCells>>
    /\ UNCHANGED <<ws, connectCalls, simVars, viewVars, dragVars>>

\* Mutant of WsOnClose: after the third attempt no reconnect is scheduled.
WsOnClose_GivesUp(i) ==
    /\ i \in DOMAIN sockets
    /\ sockets[i] \in {"CONNECTING", "OPEN"}
    /\ sockets' = [sockets EXCEPT ![i] = "CLOSED"]
    /\ reconnectAttempts' = reconnectAttempts + 1
    /\ timers' = IF reconnectAttempts + 1 > 3
                   THEN timers
                   ELSE Append(timers, ReconnectDelay(reconnectAttempts + 1))
    /\ closesSinceOpen' = closesSinceOpen + 1
    /\ sent' = << >>
    /\ lastLoad' = << >>
    /\ clampArg' = << >>
    /\ Quiet
    /\ UNCHANGED <<ws, connectCalls, simVars, entityVars, cellVars, viewVars,
                   dragVars>>

\* ws.onclose of socket i.
WsOnClose(i) ==
    /\ i \in DOMAIN sockets
    /\ sockets[i] \in {"CONNECTING", "OPEN"}
    /\ sockets' = [sockets EXCEPT ![i] = "CLOSED"]
    /\ reconnectAttempts' = reconnectAttempts + 1
    /\ timers' = Append(timers, ReconnectDelay(reconnectAttempts + 1))
    /\ closesSinceOpen' = closesSinceOpen + 1
    /\ sent' = << >>
    /\ lastLoad' = << >>
    /\ clampArg' = << >>
    /\ Quiet
    /\ UNCHANGED <<ws, connectCalls, simVars, entityVars, cellVars, viewVars,
                   dragVars>>

(***************************************************************************)
(* World state store (main.js 139-258).                                    *)
(***************************************************************************)
\* Mutant of LoadCells: the maxima are taken with Math.min.
RECURSIVE LoadCells_MaxUsesMin(_, _)
LoadCells_MaxUsesMin(cells, acc) ==
    IF cells = << >> THEN acc
    ELSE LET cell == Head(cells) IN
         LoadCells_MaxUsesMin(Tail(cells),
                   [table |-> Assign(acc.table, Key(cell.x, cell.y), cell),
                    minX |-> MathMin(acc.minX, cell.x),
                    minY |-> MathMin(acc.minY, cell.y),
                    maxX |-> MathMin(acc.maxX, cell.x),
                    maxY |-> MathMin(acc.maxY, cell.y)])

\* Mutant of LoadCells: the maxima are never updated.
RECURSIVE LoadCells_SkipsMax(_, _)
LoadCells_SkipsMax(cells, acc) ==
    IF cells = << >> THEN acc
    ELSE LET cell == Head(cells) IN
         LoadCells_SkipsMax(Tail(cells),
                   [table |-> Assign(acc.table, Key(cell.x, cell.y), cell),
                    minX |-> MathMin(acc.minX, cell.x),
                    minY |-> MathMin(acc.minY, cell.y),
                    maxX |-> acc.maxX,
                    maxY |-> acc.maxY])

\* The cells.forEach loop of initializeFullMap: acc carries the table and
\* the four running bounds.
RECURSIVE LoadCells(_, _)
LoadCells(cells, acc) ==
    IF cells = << >> THEN acc
    ELSE LET cell == Head(cells) IN
         LoadCells(Tail(cells),
                   [table |-> Assign(acc.table, Key(cell.x, cell.y), cell),
                    minX |-> MathMin(acc.minX, cell.x),
                    minY |-> MathMin(acc.minY, cell.y),
                    maxX |-> MathMax(acc.maxX, cell.x),
                    maxY |-> MathMax(acc.maxY, cell.y)])

\* Mutant of initializeFullMap: a new chunk also clears the explored set.
initializeFullMap_ClearsExplored(cells) ==
    LET r == LoadCells(cells, [table |-> EmptyObject,
                               minX |-> MAP_SIZE_CELLS, minY |-> MAP_SIZE_CELLS,
                               maxX |-> 0, maxY |-> 0])
    IN /\ mapCells' = r.table
       /\ mapMinX' = r.minX
       /\ mapMinY' = r.minY
       /\ mapMaxX' = r.maxX
       /\ mapMaxY' = r.maxY
       /\ IF Len(cells) > 0
            THEN viewportX' = r.minX /\ viewportY' = r.minY
            ELSE UNCHANGED viewVars
       /\ lastLoad' = <<cells>>
       /\ clampArg' = << >>
       /\ lastChunk' = IF Len(cells) > 0 THEN "nonempty" ELSE "empty"
       /\ exploredCells' = {}
       /\ UNCHANGED <<agents, resources, hazards, selectedAgent, simVars>>
       /\ Renders(<<Entry("System", "Map data received")>>
                 \o (IF Len(cells) > 0
                       THEN <<Entry("System", "Viewport locked to chunk origin")>>
                       ELSE << >>))

\* Mutant of initializeFullMap: the table is not cleared first.
initializeFullMap_KeepsOldCells(cells) ==
    LET r == LoadCells(cells, [table |-> mapCells,
                               minX |-> MAP_SIZE_CELLS, minY |-> MAP_SIZE_CELLS,
                               maxX |-> 0, maxY |-> 0])
    IN /\ mapCells' = r.table
       /\ mapMinX' = r.minX
       /\ mapMinY' = r.minY
       /\ mapMaxX' = r.maxX
       /\ mapMaxY' = r.maxY
       /\ IF Len(cells) > 0
            THEN viewportX' = r.minX /\ viewportY' = r.minY
            ELSE UNCHANGED viewVars
       /\ lastLoad' = <<cells>>
       /\ clampArg' = << >>
       /\ lastChunk' = IF Len(cells) > 0 THEN "nonempty" ELSE "empty"
       /\ UNCHANGED <<entityVars, simVars>>
       /\ Renders(<<Entry("System", "Map data received")>>
                 \o (IF Len(cells) > 0
                       THEN <<Entry("System", "Viewport locked to chunk origin")>>
                       ELSE << >>))

initializeFullMap(cells) ==
    \E r \in {LoadCells(cells, [table |-> EmptyObject,
                                minX |-> MAP_SIZE_CELLS, minY |-> MAP_SIZE_CELLS,
                                maxX |-> 0, maxY |-> 0])} :
       /\ mapCells' = r.table
       /\ mapMinX' = r.minX
       /\ mapMinY' = r.minY
       /\ mapMaxX' = r.maxX
       /\ mapMaxY' = r.maxY
       /\ IF Len(cells) > 0
            THEN viewportX' = r.minX /\ viewportY' = r.minY
            ELSE UNCHANGED viewVars
       /\ lastLoad' = <<cells>>
       /\ clampArg' = << >>
       /\ lastChunk' = IF Len(cells) > 0 THEN "nonempty" ELSE "empty"
       /\ UNCHANGED <<entityVars, simVars>>
       /\ Renders(<<Entry("System", "Map data received")>>
                 \o (IF Len(cells) > 0
                       THEN <<Entry("System", "Viewport locked to chunk origin")>>
                       ELSE << >>))

\* initializeFullMap(undefined): the table and the bounds are reset, then
\* cells.forEach throws and the rest of the function does not run.
initializeFullMapUndefined ==
    /\ mapCells' = EmptyObject
    /\ mapMinX' = MAP_SIZE_CELLS
    /\ mapMinY' = MAP_SIZE_CELLS
    /\ mapMaxX' = 0
    /\ mapMaxY' = 0
    /\ lastLoad' = << >>
    /\ clampArg' = << >>
    /\ lastChunk' = "missing"
    /\ Throws(<< >>)
    /\ UNCHANGED <<viewVars, entityVars, simVars>>

\* { ...cell, ...undefined } copies the cell.
updateMapCell(x, y, updates) ==
    LET key == Key(x, y) IN
    /\ IF key \in DOMAIN mapCells
         THEN mapCells' = [mapCells EXCEPT ![key] =
                              Spread(mapCells[key],
                                     IF updates = Undefined THEN EmptyObject
                                                            ELSE updates)]
         ELSE UNCHANGED mapCells
    /\ lastLoad' = << >>
    /\ clampArg' = << >>
    /\ UNCHANGED <<mapMinX, mapMinY, mapMaxX, mapMaxY, lastChunk>>
    /\ UNCHANGED <<viewVars, entityVars, simVars>>
    /\ IF key \in DOMAIN mapCells THEN Renders(<< >>) ELSE Quiet

\* agents.findIndex(a => a.id === id): 0 stands for -1 (not found).
FindIndex(list, id) ==
    IF \E k \in DOMAIN list : IdIs(list[k], id)
      THEN CHOOSE k \in DOMAIN list :
               /\ IdIs(list[k], id)
               /\ \A j \in DOMAIN list : IdIs(list[j], id) => k <= j
      ELSE 0

\* The callback a => a.id === agentData.id reads a.id, then agentData.id,
\* for each entry in turn until one matches: it throws on an undefined
\* agentData as soon as there is an entry, and on an undefined entry met
\* before a match.
FindIndexThrows(list, agentData) ==
    IF agentData = Undefined
      THEN list # << >>
      ELSE \E k \in DOMAIN list :
               /\ list[k] = Undefined
               /\ \A j \in 1..(k - 1) : ~IdIs(list[j], agentData.id)

\* Mutant of UpsertAgent: a known agent is replaced by the update.
UpsertAgent_Replaces(list, agentData) ==
    LET index == FindIndex(list, agentData.id) IN
    IF index > 0
      THEN [list EXCEPT ![index] = agentData]
      ELSE Append(list, agentData)

\* The if/else of updateAgent on a list and an update that findIndex
\* accepts.
UpsertAgent(list, agentData) ==
    LET index == FindIndex(list, agentData.id) IN
    IF index > 0
      THEN [list EXCEPT ![index] = Spread(list[index], agentData)]
      ELSE Append(list, agentData)

\* Mutant of updateAgent: every update is pushed.
updateAgent_AlwaysPushes(agentData) ==
    /\ agents' = Append(agents, agentData)
    /\ lastLoad' = << >>
    /\ clampArg' = << >>
    /\ UNCHANGED <<resources, hazards, exploredCells, selectedAgent>>
    /\ UNCHANGED <<cellVars, viewVars, simVars>>
    /\ RendersAgents(<< >>)

\* After the list is changed renderAgents reads agent.id of every entry
\* and throws on an undefined one.
updateAgent(agentData) ==
    /\ UNCHANGED <<resources, hazards, exploredCells, selectedAgent>>
    /\ lastLoad' = << >>
    /\ clampArg' = << >>
    /\ UNCHANGED <<cellVars, viewVars, simVars>>
    /\ IF FindIndexThrows(agents, agentData)
         THEN /\ UNCHANGED agents
              /\ Throws(<< >>)
         ELSE /\ agents' = IF agentData = Undefined
                              THEN Append(agents, Undefined)
                              ELSE UpsertAgent(agents, agentData)
              /\ RendersAgents(<< >>)

\* Mutant of addResource: a known resource is merged with the new report.
addResource_Overwrites(resource) ==
    LET k == FindIndex(resources, resource.id) IN
    /\ UNCHANGED <<agents, hazards, exploredCells, selectedAgent>>
    /\ lastLoad' = << >>
    /\ clampArg' = << >>
    /\ UNCHANGED <<cellVars, viewVars, simVars>>
    /\ IF k = 0
         THEN /\ resources' = Append(resources, Spread(resource, [discovered |-> TRUE]))
              /\ Renders(<<Entry("Discovery", "found")>>)
         ELSE /\ resources' = [resources EXCEPT ![k] = Spread(resources[k], resource)]
              /\ Renders(<< >>)

\* With resource undefined the find callback throws on the first entry;
\* on an empty list { ...undefined, discovered: true } is pushed and then
\* resource.type throws before the log entry is made.
addResource(resource) ==
    /\ UNCHANGED <<agents, hazards, exploredCells, selectedAgent>>
    /\ lastLoad' = << >>
    /\ clampArg' = << >>
    /\ UNCHANGED <<cellVars, viewVars, simVars>>
    /\ IF resource = Undefined
         THEN /\ resources' = IF resources = << >>
                                 THEN <<[discovered |-> TRUE]>>
                                 ELSE resources
              /\ Throws(<< >>)
         ELSE IF FindIndex(resources, resource.id) = 0
         THEN /\ resources' = Append(resources, Spread(resource, [discovered |-> TRUE]))
              /\ Renders(<<Entry("Discovery", "found")>>)
         ELSE /\ UNCHANGED resources
              /\ Renders(<< >>)

\* addHazard only writes a log entry and redraws; with hazard undefined,
\* hazard.id throws before the entry is made.
addHazard(hazard) ==
    /\ lastLoad' = << >>
    /\ clampArg' = << >>
    /\ UNCHANGED <<entityVars, cellVars, viewVars, simVars>>
    /\ IF hazard = Undefined
         THEN Throws(<< >>)
         ELSE Renders(<<Entry("Alert", "Hazard")>>)

markCellExplored(x, y) ==
    /\ exploredCells' = exploredCells \cup {Key(x, y)}
    /\ UNCHANGED <<agents, resources, hazards, selectedAgent>>
    /\ lastLoad' = << >>
    /\ clampArg' = << >>
    /\ UNCHANGED <<cellVars, viewVars, simVars>>
    /\ Renders(<< >>)

\* Mutant of handleMessage: a simulation_stopped notice also clears the
\* agents and the selection.
handleMessage_StoppedClearsAgents(data) ==
    CASE data.type \in {"full_map_init", "update_map"} ->
             IF "map_cells" \in DOMAIN data
               THEN initializeFullMap(data.map_cells)
               ELSE initializeFullMapUndefined
      [] data.type = "map_cell_update" ->
             updateMapCell(data.x, data.y, Payload(data, "updates"))
      [] data.type = "agent_update" -> updateAgent(Payload(data, "agent"))
      [] data.type = "resource_discovered" -> addResource(Payload(data, "resource"))
      [] data.type = "hazard_detected" -> addHazard(Payload(data, "hazard"))
      [] data.type = "cell_explored" -> markCellExplored(data.x, data.y)
      [] data.type = "log_message" ->
             /\ lastLoad' = << >>
             /\ clampArg' = << >>
             /\ Logs(<<Entry(data.sender, data.content)>>)
             /\ UNCHANGED <<simVars, entityVars, cellVars, viewVars>>
      [] data.type = "stats" ->
             /\ lastLoad' = << >>
             /\ clampArg' = << >>
             /\ IF "stats" \in DOMAIN data THEN Quiet ELSE Throws(<< >>)
             /\ UNCHANGED <<simVars, entityVars, cellVars, viewVars>>
      [] data.type = "simulation_started" ->
             /\ lastLoad' = << >>
             /\ clampArg' = << >>
             /\ Logs(<<Entry("System", "Simulation started successfully")>>)
             /\ UNCHANGED <<simVars, entityVars, cellVars, viewVars>>
      [] data.type = "simulation_stopped" ->
             /\ simulationStarted' = FALSE
             /\ lastLoad' = << >>
             /\ clampArg' = << >>
             /\ Logs(<<Entry("System", "Simulation stopped")>>)
             /\ agents' = << >>
             /\ selectedAgent' = << >>
             /\ UNCHANGED <<isRunning, resources, hazards, exploredCells,
                            cellVars, viewVars>>
      [] data.type = "simulation_paused" ->
             /\ lastLoad' = << >>
             /\ clampArg' = << >>
             /\ Logs(<<Entry("System", "Simulation paused")>>)
             /\ UNCHANGED <<simVars, entityVars, cellVars, viewVars>>
      [] data.type = "simulation_resumed" ->
             /\ lastLoad' = << >>
             /\ clampArg' = << >>
             /\ Logs(<<Entry("System", "Simulation resumed")>>)
             /\ UNCHANGED <<simVars, entityVars, cellVars, viewVars>>
      [] data.type = "error" ->
             /\ lastLoad' = << >>
             /\ clampArg' = << >>
             /\ Logs(<<Entry("Error", IF "message" \in DOMAIN data
                                        THEN data.message
                                        ELSE "Unknown error occurred")>>)
             /\ UNCHANGED <<simVars, entityVars, cellVars, viewVars>>
      [] OTHER ->
             /\ lastLoad' = << >>
             /\ clampArg' = << >>
             /\ Quiet
             /\ UNCHANGED <<simVars, entityVars, cellVars, viewVars>>

\* The switch of handleMessage.  A frame that lacks the object its case
\* passes on hands undefined to the store function; updateStats(undefined)
\* throws; a type without a case falls through the switch.
handleMessage(data) ==
    CASE data.type \in {"full_map_init", "update_map"} ->
             IF "map_cells" \in DOMAIN data
               THEN initializeFullMap(data.map_cells)
               ELSE initializeFullMapUndefined
      [] data.type = "map_cell_update" ->
             updateMapCell(data.x, data.y, Payload(data, "updates"))
      [] data.type = "agent_update" -> updateAgent(Payload(data, "agent"))
      [] data.type = "resource_discovered" -> addResource(Payload(data, "resource"))
      [] data.type = "hazard_detected" -> addHazard(Payload(data, "hazard"))
      [] data.type = "cell_explored" -> markCellExplored(data.x, data.y)
      [] data.type = "log_message" ->
             /\ lastLoad' = << >>
             /\ clampArg' = << >>
             /\ Logs(<<Entry(data.sender, data.content)>>)
             /\ UNCHANGED <<simVars, entityVars, cellVars, viewVars>>
      [] data.type = "stats" ->
             /\ lastLoad' = << >>
             /\ clampArg' = << >>
             /\ IF "stats" \in DOMAIN data THEN Quiet ELSE Throws(<< >>)
             /\ UNCHANGED <<simVars, entityVars, cellVars, viewVars>>
      [] data.type = "simulation_started" ->
             /\ lastLoad' = << >>
             /\ clampArg' = << >>
             /\ Logs(<<Entry("System", "Simulation started successfully")>>)
             /\ UNCHANGED <<simVars, entityVars, cellVars, viewVars>>
      [] data.type = "simulation_stopped" ->
             /\ simulationStarted' = FALSE
             /\ lastLoad' = << >>
             /\ clampArg' = << >>
             /\ Logs(<<Entry("System", "Simulation stopped")>>)
             /\ UNCHANGED <<isRunning, entityVars, cellVars, viewVars>>
      [] data.type = "simulation_paused" ->
             /\ lastLoad' = << >>
             /\ clampArg' = << >>
             /\ Logs(<<Entry("System", "Simulation paused")>>)
             /\ UNCHANGED <<simVars, entityVars, cellVars, viewVars>>
      [] data.type = "simulation_resumed" ->
             /\ lastLoad' = << >>
             /\ clampArg' = << >>
             /\ Logs(<<Entry("System", "Simulation resumed")>>)
             /\ UNCHANGED <<simVars, entityVars, cellVars, viewVars>>
      [] data.type = "error" ->
             /\ lastLoad' = << >>
             /\ clampArg' = << >>
             /\ Logs(<<Entry("Error", IF "message" \in DOMAIN data
                                        THEN data.message
                                        ELSE "Unknown error occurred")>>)
             /\ UNCHANGED <<simVars, entityVars, cellVars, viewVars>>
      [] OTHER ->
             /\ lastLoad' = << >>
             /\ clampArg' = << >>
             /\ Quiet
             /\ UNCHANGED <<simVars, entityVars, cellVars, viewVars>>

\* ws.onmessage of socket i: a frame arrives only on an open socket.
WsOnMessage(i, data) ==
    /\ i \in DOMAIN sockets
    /\ sockets[i] = "OPEN"
    /\ handleMessage(data)
    /\ sent' = << >>
    /\ UNCHANGED <<connVars, dragVars>>

(***************************************************************************)
(* Viewport controller and interaction handlers (main.js 329-343,          *)
(* 553-658).                                                               *)
(***************************************************************************)
\* Mutant of clampViewport: the lower limit is not applied.
clampViewport_NoLowerLimit(x, y) ==
    LET maxViewX == mapMaxX - VIEWPORT_SIZE_CELLS + 1
        maxViewY == mapMaxY - VIEWPORT_SIZE_CELLS + 1
        newX == MathMin(x, maxViewX)
        newY == MathMin(y, maxViewY)
        unloaded == mapMaxX = 0 /\ mapMinX = MAP_SIZE_CELLS
    IN /\ viewportX' = IF unloaded THEN 0 ELSE newX
       /\ viewportY' = IF unloaded THEN 0 ELSE newY
       /\ clampArg' = <<x, y>>

\* Mutant of clampViewport: the upper limit is the largest coordinate.
clampViewport_UpperAtMax(x, y) ==
    LET maxViewX == mapMaxX
        maxViewY == mapMaxY
        newX == MathMax(mapMinX, MathMin(x, maxViewX))
        newY == MathMax(mapMinY, MathMin(y, maxViewY))
        unloaded == mapMaxX = 0 /\ mapMinX = MAP_SIZE_CELLS
    IN /\ viewportX' = IF unloaded THEN 0 ELSE newX
       /\ viewportY' = IF unloaded THEN 0 ELSE newY
       /\ clampArg' = <<x, y>>

\* Mutant of clampViewport: the upper limit is not applied.
clampViewport_NoUpperLimit(x, y) ==
    LET newX == MathMax(mapMinX, x)
        newY == MathMax(mapMinY, y)
        unloaded == mapMaxX = 0 /\ mapMinX = MAP_SIZE_CELLS
    IN /\ viewportX' = IF unloaded THEN 0 ELSE newX
       /\ viewportY' = IF unloaded THEN 0 ELSE newY
       /\ clampArg' = <<x, y>>

\* Mutant of ClampResult: past the upper limit the origin gives way by
\* half the overshoot.
ClampResult_RubberBand(x, y) ==
    LET maxViewX == mapMaxX - VIEWPORT_SIZE_CELLS + 1
        maxViewY == mapMaxY - VIEWPORT_SIZE_CELLS + 1
        newX == MathMax(mapMinX, IF x > maxViewX
                                   THEN maxViewX + (x - maxViewX) \div 2 ELSE x)
        newY == MathMax(mapMinY, IF y > maxViewY
                                   THEN maxViewY + (y - maxViewY) \div 2 ELSE y)
        unloaded == mapMaxX = 0 /\ mapMinX = MAP_SIZE_CELLS
    IN IF unloaded THEN <<0, 0>> ELSE <<newX, newY>>

\* The pair <<newX, newY>> that clampViewport(x, y) computes from the
\* current bounds.
ClampResult(x, y) ==
    LET maxViewX == mapMaxX - VIEWPORT_SIZE_CELLS + 1
        maxViewY == mapMaxY - VIEWPORT_SIZE_CELLS + 1
        newX == MathMax(mapMinX, MathMin(x, maxViewX))
        newY == MathMax(mapMinY, MathMin(y, maxViewY))
        unloaded == mapMaxX = 0 /\ mapMinX = MAP_SIZE_CELLS
    IN IF unloaded THEN <<0, 0>> ELSE <<newX, newY>>

clampViewport(x, y) ==
    /\ viewportX' = ClampResult(x, y)[1]
    /\ viewportY' = ClampResult(x, y)[2]
    /\ clampArg' = <<x, y>>

MouseDown(clientX, clientY) ==
    /\ isDragging' = TRUE
    /\ lastMouseX' = clientX
    /\ lastMouseY' = clientY
    /\ sent' = << >>
    /\ lastLoad' = << >>
    /\ clampArg' = << >>
    /\ Quiet
    /\ UNCHANGED <<connVars, simVars, entityVars, cellVars, viewVars>>

MouseUp ==
    /\ isDragging' = FALSE
    /\ sent' = << >>
    /\ lastLoad' = << >>
    /\ clampArg' = << >>
    /\ Quiet
    /\ UNCHANGED <<lastMouseX, lastMouseY>>
    /\ UNCHANGED <<connVars, simVars, entityVars, cellVars, viewVars>>

\* Mutant of MouseMove: the drag flag is not tested.
MouseMove_IgnoresDragFlag(clientX, clientY) ==
    /\ sent' = << >>
    /\ lastLoad' = << >>
    /\ UNCHANGED <<isDragging, connVars, simVars, entityVars, cellVars>>
    /\ IF mapMaxX = 0
         THEN /\ UNCHANGED <<viewVars, lastMouseX, lastMouseY>>
              /\ clampArg' = << >>
              /\ Quiet
         ELSE LET deltaX == clientX - lastMouseX
                  deltaY == clientY - lastMouseY
                  cellStepX == deltaX \div CELL_SIZE_PX
                  cellStepY == deltaY \div CELL_SIZE_PX
              IN /\ clampViewport(viewportX - cellStepX, viewportY - cellStepY)
                 /\ lastMouseX' = clientX
                 /\ lastMouseY' = clientY
                 /\ Renders(<< >>)

\* Math.floor(delta / CELL_SIZE_PX): \div rounds towards minus infinity.
MouseMove(clientX, clientY) ==
    /\ sent' = << >>
    /\ lastLoad' = << >>
    /\ UNCHANGED <<isDragging, connVars, simVars, entityVars, cellVars>>
    /\ IF ~isDragging \/ mapMaxX = 0
         THEN /\ UNCHANGED <<viewVars, lastMouseX, lastMouseY>>
              /\ clampArg' = << >>
              /\ Quiet
         ELSE LET deltaX == clientX - lastMouseX
                  deltaY == clientY - lastMouseY
                  cellStepX == deltaX \div CELL_SIZE_PX
                  cellStepY == deltaY \div CELL_SIZE_PX
              IN /\ clampViewport(viewportX - cellStepX, viewportY - cellStepY)
                 /\ lastMouseX' = clientX
                 /\ lastMouseY' = clientY
                 /\ Renders(<< >>)

\* Mutant of KeyDown: the early return on unloaded bounds is dropped.
KeyDown_PansUnloaded(key) ==
    /\ sent' = << >>
    /\ lastLoad' = << >>
    /\ UNCHANGED <<connVars, simVars, entityVars, cellVars, dragVars>>
    /\ CASE key = "ArrowRight" -> clampViewport(viewportX + 1, viewportY) /\ Renders(<< >>)
         [] key = "ArrowLeft" -> clampViewport(viewportX - 1, viewportY) /\ Renders(<< >>)
         [] key = "ArrowDown" -> clampViewport(viewportX, viewportY + 1) /\ Renders(<< >>)
         [] key = "ArrowUp" -> clampViewport(viewportX, viewportY - 1) /\ Renders(<< >>)
         [] OTHER -> UNCHANGED viewVars /\ clampArg' = << >> /\ Quiet

\* document keydown handler: returns at once while mapMaxX === 0.
KeyDown(key) ==
    /\ sent' = << >>
    /\ lastLoad' = << >>
    /\ UNCHANGED <<connVars, simVars, entityVars, cellVars, dragVars>>
    /\ IF mapMaxX = 0
         THEN UNCHANGED viewVars /\ clampArg' = << >> /\ Quiet
         ELSE CASE key = "ArrowRight" -> clampViewport(viewportX + 1, viewportY) /\ Renders(<< >>)
                [] key = "ArrowLeft" -> clampViewport(viewportX - 1, viewportY) /\ Renders(<< >>)
                [] key = "ArrowDown" -> clampViewport(viewportX, viewportY + 1) /\ Renders(<< >>)
                [] key = "ArrowUp" -> clampViewport(viewportX, viewportY - 1) /\ Renders(<< >>)
                [] OTHER -> UNCHANGED viewVars /\ clampArg' = << >> /\ Quiet

\* agent.x >= mapMinX && ... : a comparison with a missing coordinate
\* (undefined) is false.
IsOnMap(agent) ==
    /\ "x" \in DOMAIN agent /\ "y" \in DOMAIN agent
    /\ agent.x >= mapMinX /\ agent.x <= mapMaxX
    /\ agent.y >= mapMinY /\ agent.y <= mapMaxY

\* selectAgent(agent), reached from an entry of the agent list, which
\* renderAgents rebuilds from `agents` after every change, up to the first
\* undefined entry (where it throws).
selectAgent(k) ==
    /\ k \in DOMAIN agents
    /\ \A j \in 1..k : agents[j] # Undefined
    /\ selectedAgent' = <<agents[k]>>
    /\ sent' = << >>
    /\ lastLoad' = << >>
    /\ clampArg' = << >>
    /\ UNCHANGED <<agents, resources, hazards, exploredCells>>
    /\ UNCHANGED <<connVars, simVars, cellVars, viewVars, dragVars>>
    /\ IF IsOnMap(agents[k])
         THEN RendersAgents(<< >>)
         ELSE RendersAgents(<<Entry("System",
                                    "selected, but outside the loaded map chunk")>>)

\* Mutant of CanvasClick: the last agent standing on the clicked cell is
\* selected.
CanvasClick_SelectsLast(clientX, clientY) ==
    LET worldX == ScreenToWorld(clientX, viewportX)
        worldY == ScreenToWorld(clientY, viewportY)
        Hit(k) == /\ agents[k] # Undefined
                  /\ "x" \in DOMAIN agents[k] /\ "y" \in DOMAIN agents[k]
                  /\ agents[k].x = worldX /\ agents[k].y = worldY
        findThrows == \E k \in DOMAIN agents :
                          /\ agents[k] = Undefined
                          /\ \A j \in 1..(k - 1) : ~Hit(j)
    IN IF ~findThrows /\ \E k \in DOMAIN agents : Hit(k)
         THEN selectAgent(CHOOSE k \in DOMAIN agents :
                              Hit(k) /\ \A j \in DOMAIN agents : Hit(j) => j <= k)
         ELSE /\ sent' = << >>
              /\ lastLoad' = << >>
              /\ clampArg' = << >>
              /\ IF findThrows THEN Throws(<< >>) ELSE Quiet
              /\ UNCHANGED <<connVars, simVars, entityVars, cellVars, viewVars,
                             dragVars>>

\* The canvas click handler: agents.find runs its callback on the entries
\* in turn, throws on an undefined entry met before a match, and the first
\* agent standing on the clicked cell is selected.
CanvasClick(clientX, clientY) ==
    LET worldX == ScreenToWorld(clientX, viewportX)
        worldY == ScreenToWorld(clientY, viewportY)
        Hit(k) == /\ agents[k] # Undefined
                  /\ "x" \in DOMAIN agents[k] /\ "y" \in DOMAIN agents[k]
                  /\ agents[k].x = worldX /\ agents[k].y = worldY
        findThrows == \E k \in DOMAIN agents :
                          /\ agents[k] = Undefined
                          /\ \A j \in 1..(k - 1) : ~Hit(j)
    IN IF ~findThrows /\ \E k \in DOMAIN agents : Hit(k)
         THEN selectAgent(CHOOSE k \in DOMAIN agents :
                              Hit(k) /\ \A j \in 1..(k - 1) : ~Hit(j))
         ELSE /\ sent' = << >>
              /\ lastLoad' = << >>
              /\ clampArg' = << >>
              /\ IF findThrows THEN Throws(<< >>) ELSE Quiet
              /\ UNCHANGED <<connVars, simVars, entityVars, cellVars, viewVars,
                             dragVars>>

\* Mutant of RenderTick: the selection is dropped once its ring is drawn.
RenderTick_DropsSelection ==
    /\ canvas' = Drawing
    /\ threw' = RenderThrows
    /\ logged' = << >>
    /\ sent' = << >>
    /\ lastLoad' = << >>
    /\ clampArg' = << >>
    /\ selectedAgent' = << >>
    /\ UNCHANGED <<agents, resources, hazards, exploredCells>>
    /\ UNCHANGED <<connVars, simVars, cellVars, viewVars, dragVars>>

\* setInterval(render, 100): render() run on its own, from the timer.
RenderTick ==
    /\ canvas' = Drawing
    /\ threw' = RenderThrows
    /\ logged' = << >>
    /\ sent' = << >>
    /\ lastLoad' = << >>
    /\ clampArg' = << >>
    /\ UNCHANGED <<connVars, simVars, entityVars, cellVars, viewVars, dragVars>>

(***************************************************************************)
(* Outbound requests (main.js 101-130, 345-412).                           *)
(***************************************************************************)
\* configFile is the trimmed value of the input field.
\* Mutant of confirmStartSimulation: simulationStarted is set outside the
\* readyState test.
confirmStartSimulation_StartsUnconnected(configFile) ==
    /\ lastLoad' = << >>
    /\ clampArg' = << >>
    /\ IF configFile # "" /\ WsIsOpen
         THEN /\ sent' = <<[type |-> "start_simulation", config_file |-> configFile],
                           [type |-> "request_stats_and_map_data"]>>
              /\ simulationStarted' = TRUE
              /\ Logs(<<Entry("System", "Requesting simulation start")>>)
         ELSE /\ sent' = << >>
              /\ simulationStarted' = (simulationStarted \/ configFile # "")
              /\ Logs(<<Entry("System",
                               IF configFile = ""
                                 THEN "Error: Please enter a configuration file name"
                                 ELSE "Error: Not connected to server")>>)
    /\ UNCHANGED <<isRunning, connVars, entityVars, cellVars, viewVars, dragVars>>

confirmStartSimulation(configFile) ==
    /\ lastLoad' = << >>
    /\ clampArg' = << >>
    /\ IF configFile # "" /\ WsIsOpen
         THEN /\ sent' = <<[type |-> "start_simulation", config_file |-> configFile],
                           [type |-> "request_stats_and_map_data"]>>
              /\ simulationStarted' = TRUE
              /\ Logs(<<Entry("System", "Requesting simulation start")>>)
         ELSE /\ sent' = << >>
              /\ UNCHANGED simulationStarted
              /\ Logs(<<Entry("System",
                               IF configFile = ""
                                 THEN "Error: Please enter a configuration file name"
                                 ELSE "Error: Not connected to server")>>)
    /\ UNCHANGED <<isRunning, connVars, entityVars, cellVars, viewVars, dragVars>>

\* Mutant of sendCommand: the selection is not tested.
sendCommand_NoSelectionCheck(command) ==
    /\ lastLoad' = << >>
    /\ clampArg' = << >>
    /\ IF WsIsOpen
         THEN /\ sent' = <<[type |-> "command", command |-> command,
                            agentId |-> IF selectedAgent # << >>
                                          THEN selectedAgent[1].id
                                          ELSE "undefined"]>>
              /\ Logs(<<Entry("Command", "Sent")>>)
         ELSE /\ sent' = << >>
              /\ Logs(<<Entry("System", "Not connected to SPADE - command ignored")>>)
    /\ UNCHANGED <<connVars, simVars, entityVars, cellVars, viewVars, dragVars>>

\* Mutant of sendCommand: readyState is not tested.
sendCommand_NoOpenCheck(command) ==
    /\ lastLoad' = << >>
    /\ clampArg' = << >>
    /\ IF ws # 0 /\ selectedAgent # << >>
         THEN /\ sent' = <<[type |-> "command", command |-> command,
                            agentId |-> selectedAgent[1].id]>>
              /\ Logs(<<Entry("Command", "Sent")>>)
         ELSE /\ sent' = << >>
              /\ Logs(<<Entry("System", "Not connected to SPADE - command ignored")>>)
    /\ UNCHANGED <<connVars, simVars, entityVars, cellVars, viewVars, dragVars>>

sendCommand(command) ==
    /\ lastLoad' = << >>
    /\ clampArg' = << >>
    /\ IF WsIsOpen /\ selectedAgent # << >>
         THEN /\ sent' = <<[type |-> "command", command |-> command,
                            agentId |-> selectedAgent[1].id]>>
              /\ Logs(<<Entry("Command", "Sent")>>)
         ELSE /\ sent' = << >>
              /\ Logs(<<Entry("System", "Not connected to SPADE - command ignored")>>)
    /\ UNCHANGED <<connVars, simVars, entityVars, cellVars, viewVars, dragVars>>

\* The frame a toggle sends: isRunning is negated first, and the negated
\* value picks resume (true) or pause (false).
ToggleFrame ==
    [type |-> IF ~isRunning THEN "resume_simulation" ELSE "pause_simulation"]

toggleSimulation ==
    /\ lastLoad' = << >>
    /\ clampArg' = << >>
    /\ IF ~simulationStarted
         THEN /\ sent' = << >>
              /\ UNCHANGED isRunning
              /\ Logs(<<Entry("System", "No simulation running")>>)
         ELSE /\ isRunning' = ~isRunning
              /\ IF WsIsOpen
                   THEN /\ sent' = <<ToggleFrame>>
                        /\ Logs(<<Entry("System",
                                         IF ~isRunning
                                           THEN "Resuming simulation..."
                                           ELSE "Pausing simulation...")>>)
                   ELSE /\ sent' = << >>
                        /\ Logs(<<Entry("System", "Not connected to server")>>)
    /\ UNCHANGED <<simulationStarted, connVars, entityVars, cellVars,
                   viewVars, dragVars>>

\* Mutant of resetSimulation: the explored set is kept.
resetSimulation_KeepsExplored ==
    /\ lastLoad' = << >>
    /\ clampArg' = << >>
    /\ IF simulationStarted /\ WsIsOpen
         THEN sent' = <<[type |-> "stop_simulation"]>>
         ELSE sent' = << >>
    /\ agents' = << >>
    /\ resources' = << >>
    /\ mapCells' = EmptyObject
    /\ selectedAgent' = << >>
    /\ viewportX' = 0
    /\ viewportY' = 0
    /\ mapMinX' = 0 /\ mapMinY' = 0 /\ mapMaxX' = 0 /\ mapMaxY' = 0
    /\ simulationStarted' = FALSE
    /\ UNCHANGED <<exploredCells, hazards, isRunning, lastChunk, connVars, dragVars>>
    /\ Renders(<<Entry("System", "Visualization reset")>>)

\* Mutant of resetSimulation: the selection is kept.
resetSimulation_KeepsSelection ==
    /\ lastLoad' = << >>
    /\ clampArg' = << >>
    /\ IF simulationStarted /\ WsIsOpen
         THEN sent' = <<[type |-> "stop_simulation"]>>
         ELSE sent' = << >>
    /\ agents' = << >>
    /\ resources' = << >>
    /\ exploredCells' = {}
    /\ mapCells' = EmptyObject
    /\ viewportX' = 0
    /\ viewportY' = 0
    /\ mapMinX' = 0 /\ mapMinY' = 0 /\ mapMaxX' = 0 /\ mapMaxY' = 0
    /\ simulationStarted' = FALSE
    /\ UNCHANGED <<selectedAgent, hazards, isRunning, lastChunk, connVars, dragVars>>
    /\ Renders(<<Entry("System", "Visualization reset")>>)

\* resetSimulation has no await: it runs to completion as one step.  It
\* does not assign hazards.  clearMessages empties the log before the last
\* entry is appended.
resetSimulation ==
    /\ lastLoad' = << >>
    /\ clampArg' = << >>
    /\ IF simulationStarted /\ WsIsOpen
         THEN sent' = <<[type |-> "stop_simulation"]>>
         ELSE sent' = << >>
    /\ agents' = << >>
    /\ resources' = << >>
    /\ exploredCells' = {}
    /\ mapCells' = EmptyObject
    /\ selectedAgent' = << >>
    /\ viewportX' = 0
    /\ viewportY' = 0
    /\ mapMinX' = 0 /\ mapMinY' = 0 /\ mapMaxX' = 0 /\ mapMaxY' = 0
    /\ simulationStarted' = FALSE
    /\ UNCHANGED <<hazards, isRunning, lastChunk, connVars, dragVars>>
    /\ Renders(<<Entry("System", "Visualization reset")>>)

(***************************************************************************)
(* Events: each handler with its inputs drawn from the input sets.         *)
(***************************************************************************)
FullMapInitMsg(cells) == [type |-> "full_map_init", map_cells |-> cells]
UpdateMapMsg(cells) == [type |-> "update_map", map_cells |-> cells]
MapCellUpdateMsg(x, y, updates) ==
    [type |-> "map_cell_update", x |-> x, y |-> y, updates |-> updates]
AgentUpdateMsg(agent) == [type |-> "agent_update", agent |-> agent]
ResourceDiscoveredMsg(resource) ==
    [type |-> "resource_discovered", resource |-> resource]
HazardDetectedMsg(hazard) == [type |-> "hazard_detected", hazard |-> hazard]
CellExploredMsg(x, y) == [type |-> "cell_explored", x |-> x, y |-> y]

OnOpen == \E i \in DOMAIN sockets : WsOnOpen(i)
OnError == \E i \in DOMAIN sockets : WsOnError(i)
OnClose == \E i \in DOMAIN sockets : WsOnClose(i)
OnTimer == \E k \in DOMAIN timers, throws \in BOOLEAN : TimerFired(k, throws)

RecvFullMapInit ==
    \E i \in DOMAIN sockets, cells \in Chunks :
        WsOnMessage(i, FullMapInitMsg(cells))
RecvUpdateMap ==
    \E i \in DOMAIN sockets, cells \in Chunks :
        WsOnMessage(i, UpdateMapMsg(cells))
RecvMapCellUpdate ==
    \E i \in DOMAIN sockets, x \in PatchXs, y \in PatchYs, u \in Updates :
        WsOnMessage(i, MapCellUpdateMsg(x, y, u))
RecvAgentUpdate ==
    \E i \in DOMAIN sockets, a \in AgentUpdates :
        WsOnMessage(i, AgentUpdateMsg(a))
RecvResourceDiscovered ==
    \E i \in DOMAIN sockets, r \in ResourceReports :
        WsOnMessage(i, ResourceDiscoveredMsg(r))
RecvHazardDetected ==
    \E i \in DOMAIN sockets, h \in HazardReports :
        WsOnMessage(i, HazardDetectedMsg(h))
RecvCellExplored ==
    \E i \in DOMAIN sockets, x \in PatchXs, y \in PatchYs :
        WsOnMessage(i, CellExploredMsg(x, y))
RecvSimulationStopped ==
    \E i \in DOMAIN sockets : WsOnMessage(i, [type |-> "simulation_stopped"])

RecvMalformed ==
    \E i \in DOMAIN sockets, data \in MalformedFrames : WsOnMessage(i, data)
RecvOther ==
    \E i \in DOMAIN sockets, data \in OtherFrames : WsOnMessage(i, data)

RecvChunk200 ==
    \E i \in DOMAIN sockets, cells \in {Chunk200to299, Chunk200to304} :
        WsOnMessage(i, FullMapInitMsg(cells))
PanDown == \E x \in PanXs, y \in PanYs : MouseDown(x, y)
PanMove == \E x \in PanXs, y \in PanYs : MouseMove(x, y)

PointerDown == \E x \in MouseXs, y \in MouseYs : MouseDown(x, y)
PointerMove == \E x \in MouseXs, y \in MouseYs : MouseMove(x, y)
PressKey == \E key \in Keys : KeyDown(key)
ClickAgentEntry == \E k \in DOMAIN agents : selectAgent(k)

ClickConfirmStart == \E configFile \in ConfigFiles : confirmStartSimulation(configFile)
ClickCommand == \E command \in Commands : sendCommand(command)

\* In the connection specification one chunk and one agent sighting stand
\* for the world state.
RecvOneChunk ==
    \E i \in DOMAIN sockets :
        WsOnMessage(i, FullMapInitMsg(<<Cell(0, 0, 1), Cell(101, 101, 1)>>))
RecvOneAgent ==
    \E i \in DOMAIN sockets :
        WsOnMessage(i, AgentUpdateMsg([id |-> "r1", x |-> 0, y |-> 0, battery |-> 40]))

RecvRenderAgent ==
    \E i \in DOMAIN sockets, agent \in RenderAgentUpdates :
        WsOnMessage(i, AgentUpdateMsg(agent))
RecvRenderResource ==
    \E i \in DOMAIN sockets, resource \in RenderResourceReports :
        WsOnMessage(i, ResourceDiscoveredMsg(resource))
ClickCanvas == \E x \in ClickXs, y \in ClickYs : CanvasClick(x, y)
RecvSelectAgent ==
    \E i \in DOMAIN sockets, agent \in SelectAgentUpdates :
        WsOnMessage(i, AgentUpdateMsg(agent))

(***************************************************************************)
(* Specifications.                                                         *)
(***************************************************************************)
\* Map and viewport: the socket opens, map frames and cell patches arrive,
\* the user drags, presses keys and resets.
Next ==
    \/ OnOpen
    \/ RecvFullMapInit
    \/ RecvUpdateMap
    \/ RecvMapCellUpdate
    \/ PointerDown
    \/ MouseUp
    \/ PointerMove
    \/ PressKey
    \/ resetSimulation

Spec == Init /\ [][Next]_vars

\* Connection and outbound requests: sockets open, fail, close and are
\* replaced by the reconnect timer while the user starts, toggles, resets
\* and commands.
NextConn ==
    \/ OnOpen
    \/ OnError
    \/ OnClose
    \/ OnTimer
    \/ RecvOneChunk
    \/ RecvOneAgent
    \/ ClickAgentEntry
    \/ ClickConfirmStart
    \/ ClickCommand
    \/ toggleSimulation
    \/ resetSimulation

SpecConn == Init /\ [][NextConn]_vars

\* Entities: agent, resource, hazard and exploration frames arrive, the
\* user selects agents and resets.
NextEntities ==
    \/ OnOpen
    \/ RecvAgentUpdate
    \/ RecvResourceDiscovered
    \/ RecvHazardDetected
    \/ RecvCellExplored
    \/ ClickAgentEntry
    \/ resetSimulation

SpecEntities == Init /\ [][NextEntities]_vars

\* The whole world state at once: one chunk, cell patches, one agent,
\* resources, hazards and explored cells arrive while the connection
\* closes and is re-made, and the user pans, selects and resets.
NextWorld ==
    \/ OnOpen
    \/ OnClose
    \/ OnTimer
    \/ RecvOneChunk
    \/ RecvMapCellUpdate
    \/ RecvOneAgent
    \/ RecvResourceDiscovered
    \/ RecvHazardDetected
    \/ RecvCellExplored
    \/ PressKey
    \/ ClickAgentEntry
    \/ resetSimulation

SpecWorld == Init /\ [][NextWorld]_vars

\* Panning over a chunk exactly as wide as the window and over one five
\* cells wider, by long drags and by keys.
NextPan ==
    \/ OnOpen
    \/ RecvChunk200
    \/ PanDown
    \/ MouseUp
    \/ PanMove
    \/ PressKey
    \/ resetSimulation

SpecPan == Init /\ [][NextPan]_vars

\* The dispatcher: well-formed store frames, frames that lack their
\* payload, and frames of the kinds that do not touch the store.
NextFrames ==
    \/ OnOpen
    \/ RecvOneChunk
    \/ RecvOneAgent
    \/ RecvResourceDiscovered
    \/ RecvMalformed
    \/ RecvOther
    \/ ClickAgentEntry
    \/ resetSimulation

SpecFrames == Init /\ [][NextFrames]_vars

\* Starting and stopping: the socket opens, closes and is replaced while
\* the user starts, toggles and resets and the server reports a stop.
NextStart ==
    \/ OnOpen
    \/ OnClose
    \/ OnTimer
    \/ ClickConfirmStart
    \/ toggleSimulation
    \/ RecvSimulationStopped
    \/ resetSimulation

SpecStart == Init /\ [][NextStart]_vars

\* The renderer: a chunk, agents, resources and hazards arrive, cells are
\* explored, the user pans with the keys, selects from the list or on the
\* canvas and resets, and the 100 ms timer redraws.
NextRender ==
    \/ OnOpen
    \/ RecvOneChunk
    \/ RecvRenderAgent
    \/ RecvRenderResource
    \/ RecvHazardDetected
    \/ RecvCellExplored
    \/ PressKey
    \/ ClickAgentEntry
    \/ ClickCanvas
    \/ RenderTick
    \/ resetSimulation

SpecRender == Init /\ [][NextRender]_vars

\* Selection: the connection opens, closes and reconnects, the chunk
\* 200..299 is loaded, agents arrive and move, and the user selects from
\* the list or on the canvas and resets.
NextSelect ==
    \/ OnOpen
    \/ OnClose
    \/ OnTimer
    \/ RecvChunk200
    \/ RecvSelectAgent
    \/ ClickAgentEntry
    \/ ClickCanvas
    \/ resetSimulation

SpecSelect == Init /\ [][NextSelect]_vars

\* The connection alone, with the reconnect timers taken to fire: a timer
\* set by setTimeout runs once its delay has passed.
NextReconnect ==
    \/ OnOpen
    \/ OnError
    \/ OnClose
    \/ OnTimer

SpecReconnect == Init /\ [][NextReconnect]_vars /\ WF_vars(OnTimer)

\* Redrawing: the connection opens, closes and reconnects, frames arrive,
\* some without their payload, the user pans, selects and resets, and the
\* 100 ms timer redraws in between.
NextRedraw ==
    \/ OnOpen
    \/ OnClose
    \/ OnTimer
    \/ RecvOneChunk
    \/ RecvOneAgent
    \/ RecvMalformed
    \/ PressKey
    \/ ClickAgentEntry
    \/ RenderTick
    \/ resetSimulation

SpecRedraw == Init /\ [][NextRedraw]_vars

(***************************************************************************)
(* Properties of the map and the viewport, checked under Spec.             *)
(***************************************************************************)
BoundsOf == <<mapMinX, mapMinY, mapMaxX, mapMaxY>>
ViewportInsideBounds ==
    /\ mapMinX <= viewportX /\ viewportX <= mapMaxX - VIEWPORT_SIZE_CELLS + 1
    /\ mapMinY <= viewportY /\ viewportY <= mapMaxY - VIEWPORT_SIZE_CELLS + 1
SpansWindow ==
    /\ mapMaxX - mapMinX + 1 >= VIEWPORT_SIZE_CELLS
    /\ mapMaxY - mapMinY + 1 >= VIEWPORT_SIZE_CELLS
\* The sentinel that initializeFullMap leaves after an empty chunk and that
\* clampViewport tests for.
BoundsUnloaded == mapMaxX = 0 /\ mapMinX = MAP_SIZE_CELLS
LoadedNonEmpty == lastLoad # << >> /\ lastLoad[1] # << >>
SetMin(S) == CHOOSE m \in S : \A n \in S : m <= n
SetMax(S) == CHOOSE m \in S : \A n \in S : m >= n
KeysX == {k[1] : k \in DOMAIN mapCells}
KeysY == {k[2] : k \in DOMAIN mapCells}

\* C1 as stated: whenever the most recent full-map frame carried a
\* non-empty chunk, of any extent, the viewport origin lies in
\* [mapMin, mapMax - W + 1] on both axes.
C1_AnyExtent == lastChunk = "nonempty" => ViewportInsideBounds

\* C1 amended: whenever the most recent full-map frame carried a non-empty
\* chunk and the bounds span at least W cells on both axes, the viewport
\* origin lies in [mapMin, mapMax - W + 1] on both axes.
C1_ViewportInsideBounds ==
    (lastChunk = "nonempty" /\ SpansWindow) => ViewportInsideBounds

\* A chunk wider than the window is loaded and the user has panned, while
\* dragging, to the far corner of the allowed range.
C1_Witness ==
    /\ lastChunk = "nonempty" /\ SpansWindow /\ isDragging
    /\ viewportX = mapMaxX - VIEWPORT_SIZE_CELLS + 1 /\ viewportX > mapMinX
    /\ viewportY = mapMaxY - VIEWPORT_SIZE_CELLS + 1 /\ viewportY > mapMinY

\* C2: whenever the bounds are in the unloaded state (as an empty chunk
\* leaves them), the viewport origin is (0, 0).
C2_UnloadedAtOrigin == BoundsUnloaded => (viewportX = 0 /\ viewportY = 0)

\* C6: right after a full_map_init / update_map frame with a non-empty cell
\* sequence, the cell table holds exactly one entry per coordinate of the
\* frame (the last cell given for that coordinate) and nothing else, and
\* the viewport origin is (mapMinX, mapMinY).
C6_ChunkReplacesTable ==
    LoadedNonEmpty =>
        LET cells == lastLoad[1] IN
        /\ DOMAIN mapCells = {<<cells[k].x, cells[k].y>> : k \in DOMAIN cells}
        /\ \A k \in DOMAIN cells :
               (\A j \in DOMAIN cells :
                    j > k => <<cells[j].x, cells[j].y>> # <<cells[k].x, cells[k].y>>)
                   => mapCells[<<cells[k].x, cells[k].y>>] = cells[k]
        /\ viewportX = mapMinX /\ viewportY = mapMinY

\* A frame that carried the origin twice has just been loaded: one entry.
C6_Witness ==
    /\ LoadedNonEmpty /\ Len(lastLoad[1]) = 2
    /\ lastLoad[1][1] # lastLoad[1][2]
    /\ Cardinality(DOMAIN mapCells) = 1

BoundsAreExtremes ==
    /\ mapMinX = SetMin(KeysX) /\ mapMaxX = SetMax(KeysX)
    /\ mapMinY = SetMin(KeysY) /\ mapMaxY = SetMax(KeysY)
BoundsChangeOnlyOnReplace ==
    [][BoundsOf' # BoundsOf => (lastLoad' # << >> \/ resetSimulation)]_vars

\* C7 as stated: whenever the cell table is non-empty the bounds are the
\* minimum and maximum x and y over the table's coordinates, whatever
\* integers they are; and the bounds change only in a step that replaces
\* the table or resets.
C7_AnyInteger ==
    /\ [](mapCells # EmptyObject => BoundsAreExtremes)
    /\ BoundsChangeOnlyOnReplace

\* C7 amended: the same, for tables whose coordinates all lie in
\* 0..MAP_SIZE_CELLS.
C7_BoundsAreExtremes ==
    /\ []((/\ mapCells # EmptyObject
           /\ KeysX \cup KeysY \subseteq 0..MAP_SIZE_CELLS) => BoundsAreExtremes)
    /\ BoundsChangeOnlyOnReplace

\* A two-cell table inside the map, patched, with distinct extremes.
C7_Witness ==
    /\ Cardinality(DOMAIN mapCells) = 2
    /\ KeysX \cup KeysY \subseteq 0..MAP_SIZE_CELLS
    /\ mapMinX < mapMaxX /\ mapMinY < mapMaxY
    /\ \E k \in DOMAIN mapCells : "dust_storm" \in DOMAIN mapCells[k]

\* C8: right after a replacement by a non-empty chunk, mapMinX <= mapMaxX
\* and mapMinY <= mapMaxY.
C8_BoundsOrdered ==
    LoadedNonEmpty => (mapMinX <= mapMaxX /\ mapMinY <= mapMaxY)

\* A non-empty chunk has replaced an earlier one; the bounds differ.
C8_Witness ==
    LoadedNonEmpty /\ mapMinX < mapMaxX /\ mapMinY < mapMaxY /\ mapMinX < 0

\* C9: a map_cell_update leaves the bounds, the viewport and the key set
\* unchanged; for an absent coordinate it leaves the table unchanged; for a
\* present coordinate it sets the patch's fields on that cell, keeps the
\* cell's other fields, and leaves every other cell as it was.
C9_PatchTouchesOneCell ==
    [][\A i \in DOMAIN sockets, x \in PatchXs, y \in PatchYs, u \in Updates :
           WsOnMessage(i, MapCellUpdateMsg(x, y, u)) =>
               /\ BoundsOf' = BoundsOf
               /\ viewVars' = viewVars
               /\ DOMAIN mapCells' = DOMAIN mapCells
               /\ \A k \in DOMAIN mapCells :
                      k # <<x, y>> => mapCells'[k] = mapCells[k]
               /\ <<x, y>> \notin DOMAIN mapCells => mapCells' = mapCells
               /\ <<x, y>> \in DOMAIN mapCells =>
                      LET old == mapCells[<<x, y>>]
                          new == mapCells'[<<x, y>>]
                      IN /\ DOMAIN new = DOMAIN old \cup DOMAIN u
                         /\ \A f \in DOMAIN u : new[f] = u[f]
                         /\ \A f \in DOMAIN old \ DOMAIN u : new[f] = old[f]
      ]_vars

\* The origin cell of a two-cell table has been patched with dust_storm
\* and has kept its terrain.
C9_Witness ==
    /\ Cardinality(DOMAIN mapCells) = 2
    /\ <<0, 0>> \in DOMAIN mapCells
    /\ DOMAIN mapCells[<<0, 0>>] = {"x", "y", "terrain", "dust_storm"}
    /\ mapCells[<<0, 0>>].terrain = 1

(***************************************************************************)
(* Properties of the connection manager, checked under SpecConn.           *)
(***************************************************************************)
\* The delays the back-off is said to produce, written out.
BackoffSequence == <<500, 1000, 2000, 4000, 5000>>
ExpectedDelay(k) == IF k <= Len(BackoffSequence) THEN BackoffSequence[k] ELSE 5000

\* C3: the k-th consecutive close since the last open (or page load)
\* schedules one reconnect timer with delay 500, 1000, 2000, 4000, 5000,
\* 5000, ... for k = 1, 2, ...; an open sets the attempt counter to zero.
C3_BackoffSequence ==
    /\ [](reconnectAttempts = closesSinceOpen)
    /\ [][OnClose => timers' = Append(timers, ExpectedDelay(closesSinceOpen'))]_vars
    /\ [][OnOpen => reconnectAttempts' = 0]_vars

\* The third socket has closed once since an open that followed two
\* earlier closes: the delay is 500 again.
C3_Witness ==
    /\ Len(sockets) = 3 /\ sockets[3] = "CLOSED"
    /\ closesSinceOpen = 1 /\ timers = <<500>>

SendStep ==
    \/ ClickConfirmStart
    \/ ClickCommand
    \/ toggleSimulation
    \/ resetSimulation
FrameTypes ==
    {"start_simulation", "request_stats_and_map_data", "command",
     "pause_simulation", "resume_simulation", "stop_simulation"}

\* C4: frames are handed to the transport only in the step of a user
\* action (start, command, toggle, reset) taken while ws is open; every
\* other step, and every user action taken while ws is not open, sends
\* nothing, so nothing is sent later on its behalf.
C4_SendOnlyWhileOpen ==
    [][sent' # << >> =>
           /\ WsIsOpen
           /\ SendStep
           /\ \A k \in DOMAIN sent' : sent'[k].type \in FrameTypes]_vars

\* A command was sent over a socket that replaced an earlier one.
C4_Witness ==
    /\ Len(sockets) >= 2 /\ WsIsOpen
    /\ sent # << >> /\ sent[1].type = "command"

\* C5: a step that changes the connection state (open, close, timer, new
\* socket) and an error event leave the cell table, bounds, viewport,
\* agents, resources, hazards, explored set and selection unchanged.
C5_ConnectionKeepsWorld ==
    [][(connVars' # connVars \/ OnError) => worldVars' = worldVars]_vars

\* A loaded map, a sighted and selected agent, after two closes in a row.
C5_Witness ==
    /\ mapCells # EmptyObject /\ agents # << >> /\ selectedAgent # << >>
    /\ viewportX = 0 /\ mapMaxX = 101
    /\ closesSinceOpen = 2 /\ Len(sockets) = 4

(***************************************************************************)
(* Properties of the entity collections, checked under SpecEntities.       *)
(***************************************************************************)
IdsOf(list) == {list[k].id : k \in DOMAIN list}

\* C10: the agent list holds at most one entry per id; an agent_update for
\* an unknown id adds exactly one entry and one for a known id adds none;
\* only a reset removes an agent.
C10_AgentsUniqueById ==
    /\ [](\A j, k \in DOMAIN agents : agents[j].id = agents[k].id => j = k)
    /\ [][\A i \in DOMAIN sockets, a \in AgentUpdates :
              WsOnMessage(i, AgentUpdateMsg(a)) =>
                  /\ Len(agents') = Len(agents)
                                      + (IF a.id \in IdsOf(agents) THEN 0 ELSE 1)
                  /\ IdsOf(agents') = IdsOf(agents) \cup {a.id}]_vars
    /\ [][~(IdsOf(agents) \subseteq IdsOf(agents')) => resetSimulation]_vars

\* Two agents are known and the first has been updated after its sighting.
C10_Witness ==
    /\ Len(agents) = 2
    /\ DOMAIN agents[1] = {"id", "x", "y", "battery"}
    /\ agents[1].battery = 30

AgentById(list, id) == list[FindIndex(list, id)]
DisjointFields(u1, u2) == u1.id = u2.id /\ DOMAIN u1 \cap DOMAIN u2 = {"id"}

\* C11: an agent_update for a known id sets the update's fields on that
\* agent, keeps the agent's other fields and leaves the other agents as
\* they were.  From every reachable agent list, updates u1 then u2 for one
\* id give an agent with u2's value in every field of u2 and u1's value in
\* every field only u1 has; and two updates with no common field but the
\* id give the same agent in either order.
C11_AgentUpsertMerges ==
    /\ [][\A i \in DOMAIN sockets, a \in AgentUpdates :
              (WsOnMessage(i, AgentUpdateMsg(a)) /\ a.id \in IdsOf(agents)) =>
                  LET k == FindIndex(agents, a.id)
                      old == agents[k]
                      new == agents'[k]
                  IN /\ DOMAIN new = DOMAIN old \cup DOMAIN a
                     /\ \A f \in DOMAIN a : new[f] = a[f]
                     /\ \A f \in DOMAIN old \ DOMAIN a : new[f] = old[f]
                     /\ Len(agents') = Len(agents)
                     /\ \A j \in DOMAIN agents : j # k => agents'[j] = agents[j]
         ]_vars
    /\ [](\A u1, u2 \in AgentUpdates :
              u1.id = u2.id =>
                  LET r == AgentById(UpsertAgent(UpsertAgent(agents, u1), u2), u1.id)
                  IN /\ DOMAIN u1 \cup DOMAIN u2 \subseteq DOMAIN r
                     /\ \A f \in DOMAIN u2 : r[f] = u2[f]
                     /\ \A f \in DOMAIN u1 \ DOMAIN u2 : r[f] = u1[f])
    /\ [](\A u1, u2 \in AgentUpdates :
              DisjointFields(u1, u2) =>
                  AgentById(UpsertAgent(UpsertAgent(agents, u1), u2), u1.id)
                      = AgentById(UpsertAgent(UpsertAgent(agents, u2), u1), u1.id))

\* Agent r1 carries the position of a position-only update and the battery
\* of a battery-only update.
C11_Witness ==
    /\ agents # << >>
    /\ agents[1] = [id |-> "r1", x |-> 7, y |-> 0, battery |-> 30]

\* C12: a resource_discovered frame for an id not in the resource list
\* appends exactly one entry, the report with discovered = TRUE; a frame
\* for an id already in the list, whatever its fields, leaves the list as
\* it was.
C12_ResourceInsertedOnce ==
    [][\A i \in DOMAIN sockets, r \in ResourceReports :
           WsOnMessage(i, ResourceDiscoveredMsg(r)) =>
               IF r.id \in IdsOf(resources)
                 THEN resources' = resources
                 ELSE /\ Len(resources') = Len(resources) + 1
                      /\ SubSeq(resources', 1, Len(resources)) = resources
                      /\ LET new == resources'[Len(resources')]
                         IN /\ DOMAIN new = DOMAIN r \cup {"discovered"}
                            /\ new.discovered = TRUE
                            /\ \A f \in DOMAIN r : new[f] = r[f]
      ]_vars

\* The state right after a repeated report: among the frames and inputs of
\* this specification only a resource_discovered frame for a known id
\* leaves a resource, no agent, no explored cell and no log entry.
C12_Witness ==
    /\ Len(resources) = 1 /\ resources[1].type = "water"
    /\ resources[1].discovered
    /\ logged = << >> /\ agents = << >> /\ exploredCells = {}

\* C13: after a hazard_detected frame the hazard collection holds exactly
\* one hazard with the frame's id; a frame for an id already in the
\* collection changes neither the collection nor the log.
C13_HazardInsertedOnce ==
    [][\A i \in DOMAIN sockets, h \in HazardReports :
           WsOnMessage(i, HazardDetectedMsg(h)) =>
               /\ Cardinality({k \in DOMAIN hazards' : IdIs(hazards'[k], h.id)}) = 1
               /\ (\E k \in DOMAIN hazards : IdIs(hazards[k], h.id)) =>
                      (hazards' = hazards /\ logged' = << >>)
      ]_vars

(***************************************************************************)
(* Properties of the whole world state, checked under SpecWorld.           *)
(***************************************************************************)
\* Everything a reset is to leave: empty collections, explored set and
\* cell table, no selection, the bounds as they are at page load (all
\* zero, which the pan handlers take for no data) and the viewport at the
\* origin.
AllCleared ==
    /\ agents = << >> /\ resources = << >> /\ hazards = << >>
    /\ exploredCells = {} /\ mapCells = EmptyObject
    /\ selectedAgent = << >>
    /\ BoundsOf = <<0, 0, 0, 0>>
    /\ viewportX = 0 /\ viewportY = 0
\* A step that empties a collection, the explored set or the selection.
ClearsSome ==
    \/ agents # << >> /\ agents' = << >>
    \/ resources # << >> /\ resources' = << >>
    \/ exploredCells # {} /\ exploredCells' = {}
    \/ selectedAgent # << >> /\ selectedAgent' = << >>

\* C14: a reset taken in any state leaves agents, resources, hazards, the
\* explored set and the cell table empty, the selection null, the bounds
\* unloaded and the viewport at (0, 0); and it is one step: every step
\* that empties any of the collections, the explored set or the selection
\* leaves all of this cleared, so no state with only part of it cleared
\* is ever reached.
C14_ResetClearsAll ==
    /\ [][resetSimulation => AllCleared']_vars
    /\ [][ClearsSome => AllCleared']_vars

\* A reset has just run on a world that had a chunk loaded.
C14_Witness ==
    /\ logged = <<Entry("System", "Visualization reset")>>
    /\ lastChunk = "nonempty"
    /\ AllCleared

\* C15: a cell_explored frame adds its coordinate key to the explored
\* set, and only a reset step removes a key from it.
C15_ExploredOnlyGrows ==
    /\ [][\A i \in DOMAIN sockets, x \in PatchXs, y \in PatchYs :
              WsOnMessage(i, CellExploredMsg(x, y)) =>
                  exploredCells' = exploredCells \cup {Key(x, y)}]_vars
    /\ [][~(exploredCells \subseteq exploredCells') => resetSimulation]_vars

\* Two cells are explored, one of them outside every chunk, under a loaded
\* and patched chunk, with an agent known, after a reconnect and a pan.
C15_Witness ==
    /\ Cardinality(exploredCells) = 2
    /\ lastChunk = "nonempty" /\ mapCells # EmptyObject
    /\ "dust_storm" \in DOMAIN mapCells[<<0, 0>>]
    /\ agents # << >> /\ Len(sockets) >= 2 /\ viewportX > 0

(***************************************************************************)
(* Properties of the dispatcher, checked under SpecFrames.                 *)
(***************************************************************************)
\* C16: a frame of a recognized type that lacks its payload leaves the
\* cell table, bounds, viewport and every collection exactly as they were,
\* and the well-formed frames that follow are processed without error.
C16_MalformedFrameIgnored ==
    /\ [][\A i \in DOMAIN sockets, data \in MalformedFrames :
              WsOnMessage(i, data) => worldVars' = worldVars]_vars
    /\ [][(RecvOneChunk \/ RecvOneAgent \/ RecvResourceDiscovered) => ~threw']_vars

C18_CommandNeedsOpenAndSelection ==
    /\ [][(\E k \in DOMAIN sent' : sent'[k].type = "command") =>
              (WsIsOpen /\ selectedAgent # << >> /\ ClickCommand)]_vars
    /\ [][\A command \in Commands :
              sendCommand(command) =>
                  /\ <<connVars, simVars, worldVars, dragVars>>'
                         = <<connVars, simVars, worldVars, dragVars>>
                  /\ Len(logged') = 1
                  /\ IF WsIsOpen /\ selectedAgent # << >>
                       THEN sent' = <<[type |-> "command", command |-> command,
                                       agentId |-> selectedAgent[1].id]>>
                       ELSE sent' = << >>
         ]_vars

\* A command has just been refused with an agent selected, on a closed
\* socket that has not been replaced yet.
C18_Witness ==
    /\ logged = <<Entry("System", "Not connected to SPADE - command ignored")>>
    /\ sent = << >>
    /\ ~WsIsOpen /\ selectedAgent # << >> /\ timers # << >>

(***************************************************************************)
(* The panning scenarios, checked under SpecPan.                           *)
(***************************************************************************)
Chunk200Loaded == BoundsOf = <<200, 200, 299, 299>>
Viewport == <<viewportX, viewportY>>
\* max(lo, min(c, hi)) written out.
Clamped(c, lo, hi) ==
    IF c > hi THEN (IF hi < lo THEN lo ELSE hi) ELSE (IF c < lo THEN lo ELSE c)

\* C19: with the chunk 200..299 x 200..299 loaded and W = 100, the origin
\* is (200, 200) right after the load; every clampViewport call sets each
\* axis to max(200, min(candidate, 299 - 100 + 1)); a pan to (150, 200)
\* and a pan to (260, 260) both give (200, 200).
C19_ClampOnWindowSizedChunk ==
    /\ [](lastLoad = <<Chunk200to299>> => Viewport = <<200, 200>>)
    /\ [][(Chunk200Loaded /\ clampArg' # << >>) =>
              /\ viewportX' = Clamped(clampArg'[1], 200, 299 - 100 + 1)
              /\ viewportY' = Clamped(clampArg'[2], 200, 299 - 100 + 1)]_vars
    /\ [][(Chunk200Loaded /\ clampArg' \in {<<150, 200>>, <<260, 260>>}) =>
              Viewport' = <<200, 200>>]_vars

\* A drag has just asked for the origin (150, 200) on the 200..299 chunk.
C19_Witness ==
    /\ Chunk200Loaded /\ isDragging
    /\ clampArg = <<150, 200>>
    /\ Viewport = <<200, 200>>

\* C20 as stated: with the chunk 200..299 x 200..299 loaded and the
\* viewport at (200, 200), a pan to (205, 205) puts the origin at
\* (205, 205).
C20_PanUnclamped ==
    [][(Chunk200Loaded /\ Viewport = <<200, 200>> /\ clampArg' = <<205, 205>>)
           => Viewport' = <<205, 205>>]_vars

\* C20 amended: with that chunk loaded and the viewport at (200, 200), a
\* pan to (205, 205) is clamped and the origin stays (200, 200).
C20_PanClampedToOrigin ==
    [][(Chunk200Loaded /\ Viewport = <<200, 200>> /\ clampArg' = <<205, 205>>)
           => Viewport' = <<200, 200>>]_vars

\* A drag has just asked for the origin (205, 205) on the 200..299 chunk.
C20_Witness ==
    /\ Chunk200Loaded /\ isDragging
    /\ clampArg = <<205, 205>>
    /\ Viewport = <<200, 200>>

(***************************************************************************)
(* Properties of clampViewport as a function, checked under Spec.          *)
(***************************************************************************)
\* Candidates below, at and above every bound and limit the chunks of Spec
\* give rise to.
Candidates == {-1000, -100, -2, -1, 0, 1, 2, 3, 50, 100, 101, 102, 1000, 1001}

\* C21: under the bounds of every reachable state (a chunk at least W
\* wide, a narrower one, the sentinel of an empty chunk, the zeros of a
\* reset) and for every candidate, clamping the result of clampViewport
\* again gives the same origin; and the origin a handler has just clamped
\* is left as it is by another clamp.
C21_ClampIdempotent ==
    /\ \A x \in Candidates, y \in Candidates :
           LET once == ClampResult(x, y)
           IN ClampResult(once[1], once[2]) = once
    /\ clampArg # << >> => ClampResult(viewportX, viewportY) = <<viewportX, viewportY>>

\* A pan on a chunk wider than the window has just been cut back to the
\* upper limit on both axes.
C21_Witness ==
    /\ clampArg # << >> /\ SpansWindow
    /\ clampArg[1] > viewportX \/ clampArg[2] > viewportY
    /\ viewportX = mapMaxX - VIEWPORT_SIZE_CELLS + 1
    /\ viewportX > mapMinX

\* C22: in every reachable state the viewport origin is what clampViewport
\* gives for it under the current bounds.
C22_OriginIsClamped ==
    ClampResult(viewportX, viewportY) = <<viewportX, viewportY>>

(***************************************************************************)
(* The renderer and the canvas click handler, checked under SpecRender.    *)
(***************************************************************************)
\* Origins besides the current one: negative, zero, and up to the far
\* corner of a MAP_SIZE_CELLS-wide map.
Origins == {-1000, -1, 0, 101, 900}
WindowFrom(origin) == origin..(origin + VIEWPORT_SIZE_CELLS - 1)
RoundTrips(origin) ==
    \A p \in WindowFrom(origin) :
        /\ ScreenToWorld(WorldToScreen(p, origin), origin) = p
        /\ ScreenToWorld(CellCentre(p, origin), origin) = p
\* A click on the drawn centre of agent k.
ClickOnAgent(k) ==
    CanvasClick(CellCentre(agents[k].x, viewportX),
                CellCentre(agents[k].y, viewportY))

\* C23: for the current origin on either axis and for each origin of
\* Origins, every integer world cell p of the window comes back from the
\* renderer's pixel position (the cell corner and the cell centre) through
\* the click handler's conversion; and a click on the drawn centre of an
\* agent inside the window selects an agent standing on that agent's cell.
C23_RoundTrip ==
    /\ [](\A origin \in Origins \cup {viewportX, viewportY} : RoundTrips(origin))
    /\ [][\A k \in DOMAIN agents :
              (InWindow(agents[k]) /\ ClickOnAgent(k)) =>
                  /\ selectedAgent' # << >>
                  /\ selectedAgent'[1].x = agents[k].x
                  /\ selectedAgent'[1].y = agents[k].y]_vars

\* With the window moved off the world origin, a click in the last cell of
\* the top row has selected the drone that stands there.
C23_Witness ==
    /\ viewportX = 2 /\ viewportY = 0
    /\ selectedAgent # << >> /\ selectedAgent[1].id = "r2"
    /\ \E k \in DOMAIN canvas.items :
           /\ canvas.items[k].id = <<"r2">> /\ canvas.items[k].ring
           /\ canvas.items[k].drawX = 597

\* C24: a run of render() from the timer changes neither the cell table,
\* the bounds, the viewport, the collections, the explored set, the
\* selection, the drag state nor the reconnect counter; whichever way
\* render() was invoked, a changed canvas is the projection of the state it
\* was drawn from; and a run on a state whose projection is already on the
\* canvas leaves the canvas as it is.
C24_RenderIsProjection ==
    [][/\ RenderTick => UNCHANGED <<worldVars, dragVars, reconnectAttempts>>
       /\ canvas' # canvas => canvas' = Drawing'
       /\ (RenderTick /\ canvas = Drawing) => canvas' = canvas]_vars

\* A frame showing an agent has been drawn after a full-map frame without
\* map_cells had blanked the table.
C24_Witness ==
    /\ lastChunk = "missing" /\ BoundsUnloaded
    /\ canvas = Drawing /\ canvas.cells = {} /\ canvas.items # << >>
    /\ ~threw

\* C25: every step of a handler that changes the cell table, the bounds,
\* the viewport origin, a collection, the explored set or the selection
\* ends with the projection of the new state on the canvas.
C25_ChangeIsRedrawn ==
    [][worldVars' # worldVars => canvas' = Drawing']_vars

IdsIn(list) == [k \in DOMAIN list |-> IdOf(list[k])]
DrawnIds(frame) == [k \in DOMAIN frame.items |-> frame.items[k].id]
HazardStep(hazard) ==
    \E i \in DOMAIN sockets : WsOnMessage(i, HazardDetectedMsg(hazard))

\* C26: a frame that is up to date shows exactly the entities inside the
\* window, hazards first, then resources, then agents; and the frame drawn
\* when a hazard inside the window is detected shows that hazard.
C26_HazardsResourcesAgents ==
    /\ [](canvas = Drawing =>
            DrawnIds(canvas) =
                IdsIn(SelectSeq(hazards \o resources \o agents, InWindow)))
    /\ [][\A hazard \in HazardReports :
              (HazardStep(hazard) /\ InWindow(hazard)') =>
                  \E k \in DOMAIN canvas'.items :
                      canvas'.items[k].id = IdOf(hazard)]_vars

\* C27: in a frame that is up to date an entity bears the selection ring
\* exactly when it is drawn as an agent, an agent is selected and its id is
\* the selected agent's id.
C27_RingOnSelectedAgentOnly ==
    canvas = Drawing =>
        \A k \in DOMAIN canvas.items :
            canvas.items[k].ring <=>
                /\ canvas.items[k].shape # "resource"
                /\ selectedAgent # << >>
                /\ canvas.items[k].id = SelectedId

(***************************************************************************)
(* Lifecycle notices, checked under SpecFrames.                            *)
(***************************************************************************)
NoticeStep(type) ==
    \E i \in DOMAIN sockets : WsOnMessage(i, [type |-> type])

\* C28: after a simulation_started or simulation_resumed notice isRunning
\* is true, and after a simulation_paused or simulation_stopped notice it
\* is false, whatever it was before.
C28_NoticesSetRunning ==
    [][/\ \A type \in {"simulation_started", "simulation_resumed"} :
              NoticeStep(type) => isRunning'
       /\ \A type \in {"simulation_paused", "simulation_stopped"} :
              NoticeStep(type) => ~isRunning']_vars

(***************************************************************************)
(* Reconnection, checked under SpecConn and SpecReconnect.                 *)
(***************************************************************************)
LiveSockets == {i \in DOMAIN sockets : sockets[i] \in {"CONNECTING", "OPEN"}}

\* C29: in every reachable state the sockets that are connecting or open
\* and the pending reconnect timers number exactly one together.
C29_ReconnectsNeverStack == Cardinality(LiveSockets) + Len(timers) = 1

\* The third socket is open after two earlier ones closed, and no timer is
\* pending.
C29_Witness ==
    /\ Len(sockets) = 3 /\ sockets[3] = "OPEN" /\ ws = 3
    /\ timers = << >>

\* A timer step in which the constructor returned.
ConnectStep == OnTimer /\ Len(sockets') = Len(sockets) + 1

\* C30: whenever no socket is connecting or open (after a close or a
\* failed construction), connectWebSocket is eventually called again; no
\* pending timer has a delay above maxReconnectDelay; a call in which the
\* constructor returns makes the new socket the current one; and when that
\* socket opens the client is open again.
C30_AutomaticRecovery ==
    /\ \A calls \in {0, 1} :
           (LiveSockets = {} /\ connectCalls = calls) ~> (connectCalls # calls)
    /\ [](\A k \in DOMAIN timers : timers[k] <= maxReconnectDelay)
    /\ [][ConnectStep =>
              ws' = Len(sockets') /\ sockets'[ws'] = "CONNECTING"]_vars
    /\ [][\A i \in DOMAIN sockets : (WsOnOpen(i) /\ i = ws) => WsIsOpen']_vars

\* The client is open again on its fourth or a later socket, after the
\* earlier ones were closed and retried.
C30_Witness ==
    /\ Len(sockets) >= 4 /\ WsIsOpen /\ ws = Len(sockets)
    /\ \E i \in DOMAIN sockets : sockets[i] = "CLOSED"
    /\ reconnectAttempts = 0

(***************************************************************************)
(* Interaction handlers, checked under Spec, SpecPan and SpecRender.       *)
(***************************************************************************)
\* C31: the drag flag is a boolean; a mousedown at <<x, y>> sets it and
\* records <<x, y>>; a mouseup on the document clears it; a mousemove step
\* that changes the viewport starts in the dragging state; and a mousemove
\* while idle changes neither the viewport nor the recorded position.
C31_DragStateMachine ==
    /\ [](isDragging \in BOOLEAN)
    /\ [][/\ (\A x \in MouseXs, y \in MouseYs :
                 MouseDown(x, y) =>
                     (isDragging' /\ lastMouseX' = x /\ lastMouseY' = y))
          /\ (MouseUp => ~isDragging')
          /\ ((PointerMove /\ Viewport' # Viewport) => isDragging)
          /\ ((PointerMove /\ ~isDragging) =>
                 UNCHANGED <<viewVars, lastMouseX, lastMouseY>>)]_vars

\* The pointer is up again after a drag that took the window off the
\* corner of a loaded chunk.
C31_Witness ==
    /\ ~isDragging /\ mapMaxX # 0
    /\ Viewport # <<mapMinX, mapMinY>>
    /\ <<lastMouseX, lastMouseY>> # <<0, 0>>

\* The origin clampViewport gives for one cell from the current origin in
\* the direction of `key`; the current origin for any other key.
KeyTarget(key) ==
    CASE key = "ArrowRight" -> ClampResult(viewportX + 1, viewportY)
      [] key = "ArrowLeft" -> ClampResult(viewportX - 1, viewportY)
      [] key = "ArrowDown" -> ClampResult(viewportX, viewportY + 1)
      [] key = "ArrowUp" -> ClampResult(viewportX, viewportY - 1)
      [] OTHER -> Viewport

\* C32: with a non-empty chunk loaded, a key press leaves the viewport
\* origin at the clamp of the origin moved one cell in the key's direction,
\* and any other key leaves it unchanged.
C32_ArrowKeyStepsOneCell ==
    [][\A key \in Keys :
          (lastChunk = "nonempty" /\ mapCells # EmptyObject /\ KeyDown(key)) =>
              Viewport' = KeyTarget(key)]_vars

\* The indices of the agents standing on world cell <<wx, wy>>.
AgentsOn(wx, wy) ==
    {k \in DOMAIN agents :
        /\ agents[k] # Undefined
        /\ "x" \in DOMAIN agents[k] /\ "y" \in DOMAIN agents[k]
        /\ agents[k].x = wx /\ agents[k].y = wy}

\* C33: a click at pixel <<x, y>> on a cell that holds agents selects the
\* one that comes first in the list, a click on a cell that holds none
\* leaves the selection as it was, and neither a click nor a selection from
\* the agent list changes the viewport origin.
C33_ClickSelectsFirstAgent ==
    [][/\ \A x \in ClickXs, y \in ClickYs :
             CanvasClick(x, y) =>
                 LET on == AgentsOn(ScreenToWorld(x, viewportX),
                                    ScreenToWorld(y, viewportY))
                 IN /\ on = {} => selectedAgent' = selectedAgent
                    /\ on # {} => selectedAgent' = <<agents[SetMin(on)]>>
                    /\ Viewport' = Viewport
       /\ ClickAgentEntry => Viewport' = Viewport]_vars

\* With the window at the corner of the chunk 200..299, two agents stand
\* on the corner cell and the one listed first has just been selected.
C33_Witness ==
    /\ Chunk200Loaded /\ Viewport = <<200, 200>>
    /\ Len(agents) = 2
    /\ agents[1].x = 200 /\ agents[2].x = 200
    /\ selectedAgent = <<agents[1]>>
    /\ canvas = Drawing /\ canvas.items # << >> /\ canvas.items[1].ring

\* C34: the selection holds at most one agent, and when it holds one, an
\* agent with that id is in the agent list; a reset empties it; and agent
\* updates, chunk replacements and connection events leave the selected id
\* as it was.
C34_SelectionIsListedAgent ==
    /\ [](/\ Len(selectedAgent) <= 1
          /\ selectedAgent # << >> =>
                 \E k \in DOMAIN agents : IdOf(agents[k]) = SelectedId)
    /\ [][/\ (resetSimulation => selectedAgent' = << >>)
          /\ ((RecvSelectAgent \/ RecvChunk200 \/ OnOpen \/ OnClose \/ OnTimer) =>
                 SelectedId' = SelectedId)]_vars

\* Agent r1 is selected, an update has since moved it out of the chunk,
\* and the connection is down.
C34_Witness ==
    /\ selectedAgent # << >> /\ SelectedId = <<"r1">>
    /\ selectedAgent[1].x = 200
    /\ \E k \in DOMAIN agents : agents[k].id = "r1" /\ agents[k].x = 350
    /\ ~WsIsOpen

\* C35: while the cell store is empty (at start, after a reset, after an
\* empty chunk), no pointer move and no key press changes viewportX or
\* viewportY.
C35_NoPanWhileUnloaded ==
    [][(mapCells = EmptyObject /\ (PointerMove \/ PressKey)) =>
          Viewport' = Viewport]_vars

\* An empty chunk has replaced a loaded one whose origin was not (0, 0),
\* and a drag is in progress.
C35_Witness ==
    /\ mapCells = EmptyObject /\ lastChunk = "empty"
    /\ Viewport # <<0, 0>>
    /\ isDragging

Abs(n) == IF n < 0 THEN -n ELSE n

\* The origin a move of (dx, dy) pixels proposes from origin v.
Proposed(v, dx, dy) ==
    <<v[1] - (dx \div CELL_SIZE_PX), v[2] - (dy \div CELL_SIZE_PX)>>

Unclamped(v) == ClampResult(v[1], v[2]) = v

\* C36: while dragging over a loaded chunk, a pointer move of fewer than
\* CELL_SIZE_PX pixels on both axes leaves the viewport where it was, and a
\* pointer move followed by the opposite move, neither of them clamped,
\* brings the viewport back to where it was before the two.
C36_DragIsSymmetric ==
    [][\A x \in MouseXs, y \in MouseYs :
          (isDragging /\ mapMaxX # 0 /\ MouseMove(x, y)) =>
              LET dx == x - lastMouseX
                  dy == y - lastMouseY
                  there == Proposed(Viewport, dx, dy)
                  back == Proposed(Viewport', -dx, -dy)
              IN /\ ((Abs(dx) < CELL_SIZE_PX /\ Abs(dy) < CELL_SIZE_PX) =>
                        Viewport' = Viewport)
                 /\ ((Unclamped(there) /\ Unclamped(back)) =>
                        back = Viewport)]_vars

\* C37: isRunning changes only in a step that sends a pause_simulation or
\* a resume_simulation frame; the frame follows the new value of the flag,
\* so the frames of successive toggles then alternate.
C37_FlagFlipsOnlyWithFrame ==
    [][isRunning' # isRunning =>
          /\ sent' # << >>
          /\ sent'[1].type \in {"pause_simulation", "resume_simulation"}]_vars

\* C38: right after a step that sends start_simulation, the frame a toggle
\* sends is pause_simulation.
C38_FirstToggleAfterStartPauses ==
    [][(ClickConfirmStart /\ sent' # << >>) =>
          ToggleFrame'.type = "pause_simulation"]_vars

\* C39: a start with an empty configuration name or without an open socket
\* sends nothing and leaves simulationStarted as it was; any other start
\* sends start_simulation and then request_stats_and_map_data and sets
\* simulationStarted; simulationStarted becomes true only in a step that
\* sends start_simulation, and a reset or a simulation_stopped notice
\* makes it false.
C39_StartedOnlyAfterStartSent ==
    [][/\ \A f \in ConfigFiles :
             confirmStartSimulation(f) =>
                 IF f = "" \/ ~WsIsOpen
                   THEN sent' = << >> /\ simulationStarted' = simulationStarted
                   ELSE /\ sent' = <<[type |-> "start_simulation", config_file |-> f],
                                      [type |-> "request_stats_and_map_data"]>>
                        /\ simulationStarted'
       /\ ((simulationStarted' /\ ~simulationStarted) =>
               (sent' # << >> /\ sent'[1].type = "start_simulation"))
       /\ ((resetSimulation \/ RecvSimulationStopped) => ~simulationStarted')]_vars

\* A start has just been sent on a socket that replaced a closed one.
C39_Witness ==
    /\ simulationStarted
    /\ Len(sent) = 2 /\ sent[1].type = "start_simulation"
    /\ sent[2].type = "request_stats_and_map_data"
    /\ Len(sockets) > 1 /\ closesSinceOpen = 0

====
